---- MODULE Spec2Model ----
(***************************************************************************)
(* Offline-first point of sale: the local sales store, the local product   *)
(* catalog, the product pull and the sales push.                           *)
(***************************************************************************)
EXTENDS Integers, Sequences, FiniteSets, TLC

(* JS undefined: a value sql.js refuses to bind (bindValue throws). *)
Undefined == "undefined"
(* no value / no request in flight *)
None == "none"
(* A JS object that is neither null nor array-like: sql.js cannot bind it. *)
ObjectValue == "[object Object]"
(* JS numbers are integers here; NaN and Infinity are two values apart.    *)
NaN == -999
Infinity == 999
(* localStorage.getItem(PRODUCTS_LAST_SYNC_KEY) === null *)
NoTimestamp == -1
(* let totalPages: number | null = null *)
NoTotalPages == 0

(* ---------------------------------------------------------------------- *)
(* Bounds of the model                                                     *)
(* ---------------------------------------------------------------------- *)
MaxItems == 2
MaxBatch == 2
MaxTime == 6
MaxPage == 2
MaxList == 2
MaxPulls == 2
MaxUnits == 3

PullIds == {1}

(* the calls of syncProductsFromApi that can be in flight together *)
OverlapIds == {1, 2}
PushIds == {1, 2}
PageSizes == {2}

SaleIds == {"s1", "s2"}

(* Line items handed to saveSaleOffline; the second has no name. *)
ItemPool ==
  { [id |-> "p1", name |-> "A", price |-> 2, quantity |-> 1],
    [id |-> "p2", name |-> Undefined, price |-> 1, quantity |-> 2] }

ItemLists == UNION { [1..n -> ItemPool] : n \in 1..MaxItems }

SaleInputs == { [id |-> i, items |-> l, synced |-> FALSE] : i \in SaleIds, l \in ItemLists }

(* Products handed to replaceAllProductsOffline / saveProductsOffline; the *)
(* last one has an object where its name should be.                        *)
ProductPool ==
  { [id |-> "p1", sku |-> Undefined, name |-> "A", sellingPrice |-> 2, stockQuantity |-> 5],
    [id |-> "p2", sku |-> "K1", name |-> "B", sellingPrice |-> 1, stockQuantity |-> 0],
    [id |-> "p1", sku |-> Undefined, name |-> "C", sellingPrice |-> 3, stockQuantity |-> 1],
    [id |-> "p3", sku |-> Undefined, name |-> ObjectValue, sellingPrice |-> 1, stockQuantity |-> 1] }

ProductLists == UNION { [1..n -> ProductPool] : n \in 0..MaxBatch }

(* Table sales in rowid order; table sale_items as its set of rows: the     *)
(* rows of one sale are inserted together, in index order, so their rowid  *)
(* order is the order of the index in their id.                            *)
EmptySalesDb == [sales |-> << >>, items |-> {}]

VARIABLES
  now,          \* wall clock (Date.now / new Date()), in ticks
  salesDb,      \* in-memory sales database: tables sales and sale_items
  salesSnap,    \* localStorage[sika_offline_sales_db]
  lastSave,     \* history: <<the saveSaleOffline call that has just settled>>, else << >>
  committed,    \* history: the database built from the successful calls only
  saved,        \* history: the sales of the completed saveSaleOffline calls, in that order
  productsDb,   \* in-memory products database: table products, id -> row
  productsSnap, \* localStorage[sika_offline_products_db]
  lastReplace,  \* history: <<the replaceAllProductsOffline call that has just settled>>
  online,       \* navigator.onLine
  lastSync,     \* localStorage[products_last_sync]
  events,       \* the products-updated events dispatched so far
  pull,         \* per syncProductsFromApi call: its position and its locals
  pullResult,   \* per call: how it settled
  pullPre,      \* history: the stores, timestamp and events when the call began
  lastPage,     \* history: <<facts about the page the call fetched last>>
  replaces,     \* history: replaceAllProductsOffline calls made by the call
  lastWriter,   \* history: the call whose replace wrote the catalog last, else 0
  pullsStarted, \* history: number of syncProductsFromApi calls made
  pullTrace,    \* history: the call that fetched last, the calls whose data is older than data
                \* already applied, and the time of the last replace by a non-forced call
  remote,       \* the sales the remote backend has accepted
  isSyncingCloud, \* App state isSyncingCloud
  push,         \* per syncSales call: its position and its locals
  pushResult,   \* per call: the {synced, failed} summary it got
  attempted,    \* history: per call, its submissions and their outcomes, in order
  pendingAtStart, \* history: per call, the ids that were pending when it read the store
  storedAtStart, \* history: per call, the ids of all sales stored when it read the store
  cloud,        \* the syncCloud call: its position and its errors array
  cloudResult,  \* how the last syncCloud call settled
  lastSearch,   \* the latest query and its result, if it was a searchProductsOffline call
  lastFind,     \* the latest query and its result, if it was a findProductByCodeOffline call
  triggered,    \* the sales whose completion has called syncSales(), until that call reads the store
  cart,         \* SalesScreen prop cart: the lines in their order, quantities in quarter units
  productIndex, \* productIndexRef.current: per product id, <<its stock>> if indexed, else << >>
  lastStep,     \* history: <<the updateQuantity call made last>>, else << >>
  discount,     \* SalesScreen state discount
  amountPaidInput, \* SalesScreen state amountPaidInput: what the field holds
  isCheckoutOpen,  \* SalesScreen state isCheckoutOpen
  isCompletingSale, \* SalesScreen state isCompletingSale
  checkout,     \* <<the sale handed to onCompleteSale and not stored yet>>, else << >>
  currentSale,  \* App state currentSale: <<the sale>>, or << >> for null
  currentScreen, \* App state currentScreen
  lastConfirm,  \* history: <<the confirmCheckout call made last>>, else << >>
  lastReceipt,  \* history: <<the sale encoded last and the buffers built for it>>
  lastLabels,   \* history: <<the label job encoded last and the buffers built for it>>
  printJob,     \* main process: <<the print-receipt call and where it stands>>, else << >>
  reprint,      \* renderer: <<the handleReprintInvoice call in flight>>, else << >>
  lastReprint,  \* history: <<the handleReprintInvoice call ended last, with the screen and
                \* the current sale before and after its last step>>
  dbPromise,    \* module variable dbPromise: "null", or the state of the promise it holds
  inits,        \* the initSqlJs(...).then(...) chains started and not settled yet
  dbInstance,   \* <<the Database the promise was fulfilled with>>, else << >>
  stored,       \* localStorage[DB_STORAGE_KEY] as getDatabase sees it: <<database>> or << >>
  wasm,         \* whether sql-wasm.wasm can be loaded: "ok", "missing", or "restored"
  calls,        \* the getDatabase calls awaiting the promise, oldest first
  opened,       \* history: Database objects built in this session, and loads of the snapshot
  firstDb,      \* history: <<the database of the first initialization>>, else << >>
  lastOpen      \* history: <<the getDatabase call that has settled last>>, else << >>

salesVars == <<salesDb, salesSnap>>

salesHist == <<lastSave, committed, saved>>

productVars == <<productsDb, productsSnap>>

pullVars == <<online, lastSync, events, pull, pullResult, pullPre, lastPage, replaces,
              lastWriter, pullsStarted, pullTrace>>

pushVars == <<remote, isSyncingCloud, push, pushResult, attempted, pendingAtStart,
              storedAtStart>>

cloudVars == <<cloud, cloudResult>>

queryVars == <<lastSearch, lastFind>>

cartVars == <<cart, productIndex, lastStep>>

checkoutVars == <<discount, amountPaidInput, isCheckoutOpen, isCompletingSale, checkout,
                  currentSale, currentScreen, lastConfirm>>

printVars == <<lastReceipt, lastLabels, printJob, reprint, lastReprint>>

openVars == <<dbPromise, inits, dbInstance, stored, wasm, calls, opened, firstDb, lastOpen>>

vars == <<now, triggered, salesDb, salesSnap, lastSave, committed, saved, productsDb, productsSnap, lastReplace,
          online, lastSync, events, pull, pullResult, pullPre, lastPage, replaces,
          lastWriter, pullsStarted, pullTrace, remote, isSyncingCloud, push, pushResult, attempted,
          pendingAtStart, storedAtStart, cloud, cloudResult, lastSearch, lastFind,
          cart, productIndex, lastStep, discount, amountPaidInput, isCheckoutOpen,
          isCompletingSale, checkout, currentSale, currentScreen, lastConfirm,
          lastReceipt, lastLabels, printJob, reprint, lastReprint,
          dbPromise, inits, dbInstance, stored, wasm, calls, opened, firstDb, lastOpen>>

(* ---------------------------------------------------------------------- *)
(* Sales store                                                             *)
(* ---------------------------------------------------------------------- *)

(* persistDatabase: the snapshot is the export of the whole database. *)
persistDatabase(db) == db

(* sql.js bindValue: strings, numbers, booleans, null bind; undefined throws. *)
Bindable(v) == v # Undefined

(* INSERT OR REPLACE INTO sales: the row of that id is deleted and a new    *)
(* row is appended with createdAt = new Date().                            *)
(* the money columns of a sale; the calls made on the store directly carry  *)
(* none of interest                                                        *)
NoTotals == [subtotal |-> 0, discount |-> 0, totalAmount |-> 0, amountPaid |-> 0, changeGiven |-> 0]

SaleTotals(sale) == IF "totals" \in DOMAIN sale THEN sale.totals ELSE NoTotals

InsertOrReplaceSale(db, sale, t) ==
  [db EXCEPT !.sales =
     Append(SelectSeq(@, LAMBDA r : r.id # sale.id),
            [id |-> sale.id, synced |-> sale.synced, createdAt |-> t,
             totals |-> SaleTotals(sale)])]

(* DELETE FROM sale_items WHERE saleId = ? *)
DeleteSaleItems(db, saleId) ==
  [db EXCEPT !.items = {it \in @ : it.saleId # saleId}]

SaleItemRow(sale, index) ==
  [id |-> <<sale.id, index - 1>>,
   saleId |-> sale.id,
   productId |-> sale.items[index].id,
   name |-> sale.items[index].name,
   quantity |-> sale.items[index].quantity,
   price |-> sale.items[index].price]

(* sale.items.forEach(insertItem.run): each INSERT is its own statement;   *)
(* the first one that throws (a value that does not bind, a duplicate      *)
(* primary key) ends the loop and keeps the rows before it.  quantity and  *)
(* price are numbers in every input of the model and always bind.          *)
RECURSIVE InsertItemsFrom(_, _, _)
InsertItemsFrom(db, sale, index) ==
  IF index > Len(sale.items)
  THEN [db |-> db, threw |-> FALSE]
  ELSE LET row == SaleItemRow(sale, index)
       IN IF \/ ~Bindable(row.productId) \/ ~Bindable(row.name)
             \/ \E it \in db.items : it.id = row.id
          THEN [db |-> db, threw |-> TRUE]
          ELSE InsertItemsFrom([db EXCEPT !.items = @ \cup {row}], sale, index + 1)

(* saveSaleOffline after await getDatabase(): no BEGIN/COMMIT around it.   *)
saveSaleOffline(db, snap, sale, t) ==
  LET r == InsertItemsFrom(DeleteSaleItems(InsertOrReplaceSale(db, sale, t), sale.id), sale, 1)
  IN IF r.threw
     THEN [db |-> r.db, snap |-> snap, threw |-> TRUE]
     ELSE [db |-> r.db, snap |-> persistDatabase(r.db), threw |-> FALSE]

(* UPDATE sales SET synced = 1 WHERE id = ? *)
(* the UPDATE without its WHERE id = ? *)
UpdateSynced_EveryRow(db, saleId) ==
  [db EXCEPT !.sales = [k \in 1..Len(@) |-> [@[k] EXCEPT !.synced = TRUE]]]

UpdateSynced(db, saleId) ==
  [db EXCEPT !.sales =
     [k \in 1..Len(@) |-> IF @[k].id = saleId THEN [@[k] EXCEPT !.synced = TRUE] ELSE @[k]]]

(* DELETE FROM sale_items WHERE saleId = ?; DELETE FROM sales WHERE id = ? *)
DeleteSaleRows(db, saleId) ==
  [DeleteSaleItems(db, saleId) EXCEPT !.sales = SelectSeq(@, LAMBDA r : r.id # saleId)]

(* getSaleItems: SELECT * FROM sale_items WHERE saleId = ? *)
getSaleItems(db, saleId) ==
  LET rows == {it \in db.items : it.saleId = saleId}
  IN [k \in 1..Cardinality(rows) |->
        LET it == CHOOSE r \in rows : Cardinality({o \in rows : o.id[2] < r.id[2]}) = k - 1
        IN [id |-> it.productId, name |-> it.name, price |-> it.price, quantity |-> it.quantity]]

(* one call saveSaleOffline(sale): it runs to its end or to its first throw *)
SaveSale(sale) ==
  LET r == saveSaleOffline(salesDb, salesSnap, sale, now)
  IN /\ salesDb' = r.db
     /\ salesSnap' = r.snap

markSaleSynced(saleId) ==
  /\ salesDb' = UpdateSynced(salesDb, saleId)
  /\ salesSnap' = persistDatabase(salesDb')

deleteSale(saleId) ==
  /\ salesDb' = DeleteSaleRows(salesDb, saleId)
  /\ salesSnap' = persistDatabase(salesDb')

(* ---------------------------------------------------------------------- *)
(* Products store                                                          *)
(* ---------------------------------------------------------------------- *)

(* String.prototype.toLowerCase on the names and skus of the model *)
ToLowerCase(str) ==
  CASE str = "A" -> "a"
    [] str = "B" -> "b"
    [] str = "C" -> "c"
    [] str = "K1" -> "k1"
    [] OTHER -> str

(* table products after CREATE TABLE IF NOT EXISTS: a function id -> row *)
EmptyProductsDb == << >>

ProductRow(product) ==
  [id |-> product.id,
   sku |-> product.sku,
   name |-> product.name,
   sellingPrice |-> product.sellingPrice,
   stockQuantity |-> product.stockQuantity,
   nameLower |-> ToLowerCase(product.name),
   skuLower |-> IF product.sku # Undefined THEN ToLowerCase(product.sku) ELSE Undefined]

(* insertStmt.run([...]) throws when a value does not bind: product.id or  *)
(* product.name undefined or an object (sku ?? null binds null).           *)
ProductBinds(product) ==
  /\ product.id \notin {Undefined, ObjectValue}
  /\ product.name \notin {Undefined, ObjectValue}
  /\ product.sku # ObjectValue

(* INSERT OR REPLACE INTO products for products[index..], inside the open  *)
(* transaction; stops at the first statement that throws.                  *)
RECURSIVE InsertProductsFrom(_, _, _)
InsertProductsFrom(db, products, index) ==
  IF index > Len(products)
  THEN [db |-> db, threw |-> FALSE]
  ELSE IF ~ProductBinds(products[index])
       THEN [db |-> db, threw |-> TRUE]
       ELSE InsertProductsFrom(
              [i \in (DOMAIN db) \cup {products[index].id} |->
                 IF i = products[index].id THEN ProductRow(products[index]) ELSE db[i]],
              products, index + 1)

(* replaceAllProductsOffline with its DELETE FROM products left out *)
replaceAllProductsOffline_NoDelete(db, snap, products) ==
  LET r == InsertProductsFrom(db, products, 1)
  IN IF r.threw
     THEN [db |-> db, snap |-> snap, threw |-> TRUE]
     ELSE [db |-> r.db, snap |-> persistDatabase(r.db), threw |-> FALSE]

(* replaceAllProductsOffline with the catch block's ROLLBACK left out *)
replaceAllProductsOffline_NoRollback(db, snap, products) ==
  LET r == InsertProductsFrom(EmptyProductsDb, products, 1)
  IN IF r.threw
     THEN [db |-> r.db, snap |-> snap, threw |-> TRUE]
     ELSE [db |-> r.db, snap |-> persistDatabase(r.db), threw |-> FALSE]

(* replaceAllProductsOffline after await getDatabase(): BEGIN; DELETE FROM  *)
(* products; the inserts; COMMIT; on a throw ROLLBACK and rethrow; then    *)
(* persistDatabase.                                                        *)
replaceAllProductsOffline(db, snap, products) ==
  LET r == InsertProductsFrom(EmptyProductsDb, products, 1)
  IN IF r.threw
     THEN [db |-> db, snap |-> snap, threw |-> TRUE]
     ELSE [db |-> r.db, snap |-> persistDatabase(r.db), threw |-> FALSE]

(* saveProductsOffline: the same without the DELETE *)
saveProductsOffline(db, snap, products) ==
  LET r == InsertProductsFrom(db, products, 1)
  IN IF r.threw
     THEN [db |-> db, snap |-> snap, threw |-> TRUE]
     ELSE [db |-> r.db, snap |-> persistDatabase(r.db), threw |-> FALSE]

(* one call replaceAllProductsOffline(products) *)
ReplaceAllProducts(products) ==
  LET r == replaceAllProductsOffline(productsDb, productsSnap, products)
  IN /\ productsDb' = r.db
     /\ productsSnap' = r.snap

(* one call saveProductsOffline(products) *)
SaveProducts(products) ==
  LET r == saveProductsOffline(productsDb, productsSnap, products)
  IN /\ productsDb' = r.db
     /\ productsSnap' = r.snap

(* ---------------------------------------------------------------------- *)
(* Product pull: syncProductsFromApi                                       *)
(* ---------------------------------------------------------------------- *)

DebounceMs == 5

(* Number(v ?? 0) on the JSON values of the model *)
ToNumber(v) ==
  CASE v = Undefined -> 0
    [] v = "0" -> 0
    [] v = "1" -> 1
    [] v = "2" -> 2
    [] v = "1e999" -> Infinity
    [] OTHER -> NaN

IsFinite(n) == n \notin {NaN, Infinity}

(* normalizeProduct: << >> for null, else <<the product>> *)
normalizeProduct(item) ==
  LET id == IF item.id # Undefined THEN item.id
            ELSE IF item._id # Undefined THEN item._id ELSE ""
      name == IF item.name # Undefined THEN item.name ELSE "Unnamed Product"
      sellingPrice == ToNumber(IF item.sellingPrice # Undefined THEN item.sellingPrice
                               ELSE item.price)
      stockQuantity == ToNumber(item.stockQuantity)
      sku == IF item.sku \notin {Undefined, ""} THEN item.sku ELSE Undefined
  IN IF id = "" \/ name = "" \/ sellingPrice = NaN
     THEN << >>
     ELSE <<[id |-> id, sku |-> sku, name |-> name,
             sellingPrice |-> sellingPrice, stockQuantity |-> stockQuantity]>>

(* extractProductList: the payload itself, payload.data, payload.products, or [] *)
extractProductList(payload) ==
  IF payload.shape \in {"array", "data", "products"} THEN payload.list ELSE << >>

(* list.map(normalizeProduct).filter(Boolean) *)
RECURSIVE NormalizeList(_)
NormalizeList(list) ==
  IF list = << >> THEN << >>
  ELSE normalizeProduct(Head(list)) \o NormalizeList(Tail(list))

Max(a, b) == IF a >= b THEN a ELSE b

(* Math.ceil(a / b) for a >= 0, b >= 1 *)
CeilDiv(a, b) == (a + b - 1) \div b

(* the debounce with the force option forgotten *)
DebounceSkips_IgnoresForce(force, last, t) ==
  last # NoTimestamp /\ t - last < DebounceMs

(* if (!force && lastSync) { ... if (ageMs < 5 * 60 * 1000) return ... } *)
DebounceSkips(force, last, t) ==
  ~force /\ last # NoTimestamp /\ t - last < DebounceMs

(* the loop turn without its break on page >= totalPages *)
ProcessPage_NoTotalBreak(pl, payload) ==
  LET list == extractProductList(payload)
      stop == IF payload.shape = "array" THEN "array"
              ELSE IF ~(IsFinite(payload.totalPages) /\ payload.totalPages > 0)
                      /\ ~(IsFinite(payload.total) /\ payload.total >= 0)
                      /\ Len(list) < pl.pageSize THEN "short"
              ELSE IF Len(list) = 0 THEN "empty"
              ELSE "no"
  IN [pl EXCEPT !.all = pl.all \o NormalizeList(list),
                !.stop = stop,
                !.page = IF stop = "no" THEN @ + 1 ELSE @,
                !.pc = IF stop = "no" THEN "fetch" ELSE "replace"]

(* the loop with its page += 1 left out *)
ProcessPage_SamePage(pl, payload) ==
  LET list == extractProductList(payload)
      all == pl.all \o NormalizeList(list)
      rawTotalPages == payload.totalPages
      rawTotal == payload.total
      byPages == IsFinite(rawTotalPages) /\ rawTotalPages > 0
      byTotal == ~byPages /\ IsFinite(rawTotal) /\ rawTotal >= 0
      totalPages == IF byPages THEN Max(1, rawTotalPages)
                    ELSE IF byTotal THEN Max(1, CeilDiv(rawTotal, pl.pageSize))
                    ELSE pl.totalPages
      stop == IF payload.shape = "array" THEN "array"
              ELSE IF ~byPages /\ ~byTotal /\ Len(list) < pl.pageSize THEN "short"
              ELSE IF totalPages # NoTotalPages /\ pl.page >= totalPages THEN "total"
              ELSE IF Len(list) = 0 THEN "empty"
              ELSE "no"
  IN [pl EXCEPT !.all = all,
                !.totalPages = IF stop = "array" THEN @ ELSE totalPages,
                !.stop = stop,
                !.pc = IF stop = "no" THEN "fetch" ELSE "replace"]

(* One turn of the while loop after a response with response.ok: the page   *)
(* is added to all, then the loop breaks or goes on to the next page.      *)
ProcessPage(pl, payload) ==
  LET list == extractProductList(payload)
      all == pl.all \o NormalizeList(list)
      rawTotalPages == payload.totalPages
      rawTotal == payload.total
      byPages == IsFinite(rawTotalPages) /\ rawTotalPages > 0
      byTotal == ~byPages /\ IsFinite(rawTotal) /\ rawTotal >= 0
      totalPages == IF byPages THEN Max(1, rawTotalPages)
                    ELSE IF byTotal THEN Max(1, CeilDiv(rawTotal, pl.pageSize))
                    ELSE pl.totalPages
      stop == IF payload.shape = "array" THEN "array"
              ELSE IF ~byPages /\ ~byTotal /\ Len(list) < pl.pageSize THEN "short"
              ELSE IF totalPages # NoTotalPages /\ pl.page >= totalPages THEN "total"
              ELSE IF Len(list) = 0 THEN "empty"
              ELSE "no"
  IN [pl EXCEPT !.all = all,
                !.totalPages = IF stop = "array" THEN @ ELSE totalPages,
                !.stop = stop,
                !.page = IF stop = "no" THEN @ + 1 ELSE @,
                !.pc = IF stop = "no" THEN "fetch" ELSE "replace"]

IdlePull == [pc |-> "idle", force |-> FALSE, pageSize |-> 1, page |-> 1,
             totalPages |-> NoTotalPages, all |-> << >>, stop |-> "no"]

NoResult == [status |-> "none", synced |-> FALSE, totalFetched |-> 0, lastSyncedAt |-> NoTimestamp]

PullContext == [db |-> productsDb, snap |-> productsSnap, lastSync |-> lastSync,
                events |-> Len(events), online |-> online, at |-> now]

(* syncProductsFromApi(options) up to its first await fetch(...) *)
BeginPull(p, force, pageSize) ==
  /\ pull[p].pc = "idle"
  /\ pullsStarted < MaxPulls
  /\ pullsStarted' = pullsStarted + 1
  /\ pullPre' = [pullPre EXCEPT ![p] = PullContext]
  /\ replaces' = [replaces EXCEPT ![p] = 0]
  /\ lastPage' = [lastPage EXCEPT ![p] = << >>]
  /\ IF ~online \/ DebounceSkips(force, lastSync, now)
     THEN /\ pull' = [pull EXCEPT ![p] = [IdlePull EXCEPT !.force = force, !.pageSize = pageSize]]
          /\ pullResult' = [pullResult EXCEPT ![p] =
               [status |-> "skipped", synced |-> FALSE, totalFetched |-> 0,
                lastSyncedAt |-> lastSync]]
     ELSE /\ pull' = [pull EXCEPT ![p] =
               [IdlePull EXCEPT !.pc = "fetch", !.force = force, !.pageSize = pageSize]]
          /\ pullResult' = [pullResult EXCEPT ![p] = NoResult]
  /\ UNCHANGED <<productVars, online, lastSync, events, lastWriter, pullTrace>>

(* a call of syncProductsFromApi by one of the triggers of the app *)
PullStart(p, force, pageSize) ==
  /\ BeginPull(p, force, pageSize)
  /\ UNCHANGED <<now, triggered, openVars, printVars, cloudVars, queryVars, cartVars, checkoutVars, salesVars, salesHist, pushVars, lastReplace>>

(* What the page just fetched looks like from outside: its number, its     *)
(* records, whether it is short, and the number of pages its metadata      *)
(* names (NoTotalPages when it names none).                                *)
PageFacts(pl, payload) ==
  LET list == extractProductList(payload)
      named == IF payload.shape = "array" THEN NoTotalPages
               ELSE IF IsFinite(payload.totalPages) /\ payload.totalPages > 0
                    THEN payload.totalPages
               ELSE IF IsFinite(payload.total) /\ payload.total >= 0
                    THEN Max(1, CeilDiv(payload.total, pl.pageSize))
               ELSE NoTotalPages
  IN [page |-> pl.page, list |-> list, short |-> Len(list) < pl.pageSize, named |-> named,
      array |-> payload.shape = "array", before |-> Len(pl.all)]

(* the page step with a handler that stores what it has when a fetch fails *)
PullPage_FlushOnFailure(p, r) ==
  /\ pull[p].pc = "fetch"
  /\ r.ok => ProcessPage(pull[p], r.payload).page <= MaxPage
  /\ IF ~r.ok
     THEN /\ pull' = [pull EXCEPT ![p].pc = "idle"]
          /\ pullResult' = [pullResult EXCEPT ![p] = [NoResult EXCEPT !.status = "rejected"]]
          /\ productsDb' = saveProductsOffline(productsDb, productsSnap, pull[p].all).db
          /\ productsSnap' = saveProductsOffline(productsDb, productsSnap, pull[p].all).snap
          /\ UNCHANGED <<lastPage, pullTrace>>
     ELSE /\ pull' = [pull EXCEPT ![p] = ProcessPage(pull[p], r.payload)]
          /\ lastPage' = [lastPage EXCEPT ![p] = <<PageFacts(pull[p], r.payload)>>]
          /\ pullTrace' = [pullTrace EXCEPT !.latest = p, !.behind[p] = FALSE]
          /\ UNCHANGED <<pullResult, productVars>>
  /\ UNCHANGED <<now, triggered, openVars, printVars, cloudVars, queryVars, cartVars, checkoutVars, salesVars, salesHist, pushVars, lastReplace,
                 online, lastSync, events, pullPre, replaces, lastWriter, pullsStarted>>

(* await fetch(url) / await response.json() resume with the answer r of the *)
(* server to the request for page pull[p].page: throw on !response.ok,     *)
(* else one turn of the loop.  The remote catalog has at most MaxPage pages.*)
PullPage(p, r) ==
  /\ pull[p].pc = "fetch"
  /\ r.ok => ProcessPage(pull[p], r.payload).page <= MaxPage
  /\ IF ~r.ok
     THEN /\ pull' = [pull EXCEPT ![p].pc = "idle"]
          /\ pullResult' = [pullResult EXCEPT ![p] = [NoResult EXCEPT !.status = "rejected"]]
          /\ UNCHANGED <<lastPage, pullTrace>>
     ELSE /\ pull' = [pull EXCEPT ![p] = ProcessPage(pull[p], r.payload)]
          /\ lastPage' = [lastPage EXCEPT ![p] = <<PageFacts(pull[p], r.payload)>>]
          /\ pullTrace' = [pullTrace EXCEPT !.latest = p, !.behind[p] = FALSE]
          /\ UNCHANGED pullResult
  /\ UNCHANGED <<now, triggered, openVars, printVars, cloudVars, queryVars, cartVars, checkoutVars, salesVars, salesHist, pushVars, productVars, lastReplace,
                 online, lastSync, events, pullPre, replaces, lastWriter, pullsStarted>>

(* await replaceAllProductsOffline(all), resumed after its await getDatabase() *)
PullReplace(p) ==
  /\ pull[p].pc = "replace"
  /\ LET r == replaceAllProductsOffline(productsDb, productsSnap, pull[p].all)
     IN /\ productsDb' = r.db
        /\ productsSnap' = r.snap
        /\ replaces' = [replaces EXCEPT ![p] = @ + 1]
        /\ IF r.threw
           THEN /\ pull' = [pull EXCEPT ![p].pc = "idle"]
                /\ pullResult' = [pullResult EXCEPT ![p] =
                     [NoResult EXCEPT !.status = "store-error"]]
                /\ UNCHANGED <<lastWriter, pullTrace>>
           ELSE /\ pull' = [pull EXCEPT ![p].pc = "stamp"]
                /\ lastWriter' = p
                /\ pullTrace' = [pullTrace EXCEPT
                     !.behind = [q \in OverlapIds |->
                                   IF /\ q # p /\ pullTrace.latest = p
                                      /\ pull[q].pc \in {"fetch", "replace"} /\ lastPage[q] # << >>
                                   THEN TRUE ELSE @[q]],
                     !.quietAt = IF pull[p].force THEN @ ELSE now]
                /\ UNCHANGED pullResult
  /\ UNCHANGED <<now, triggered, openVars, printVars, cloudVars, queryVars, cartVars, checkoutVars, salesVars, salesHist, pushVars, lastReplace,
                 online, lastSync, events, pullPre, lastPage, pullsStarted>>

(* the rest of syncProductsFromApi: setProductsLastSyncedAt(now), then the  *)
(* products-updated event, whose listeners run inside dispatchEvent and    *)
(* read the stored timestamp (refreshProductsSyncTime), then the return.   *)
PullFinish(p) ==
  /\ pull[p].pc = "stamp"
  /\ lastSync' = now
  /\ events' = Append(events, [lastSyncedAt |-> now, totalFetched |-> Len(pull[p].all),
                               stored |-> lastSync'])
  /\ pull' = [pull EXCEPT ![p].pc = "idle"]
  /\ pullResult' = [pullResult EXCEPT ![p] =
       [status |-> "synced", synced |-> TRUE, totalFetched |-> Len(pull[p].all),
        lastSyncedAt |-> now]]
  /\ UNCHANGED <<now, triggered, openVars, printVars, cloudVars, queryVars, cartVars, checkoutVars, salesVars, salesHist, pushVars, productVars, lastReplace,
                 online, pullPre, lastPage, replaces, lastWriter, pullsStarted, pullTrace>>

(* the online / offline events of the window *)
ToggleOnline ==
  /\ online' = ~online
  /\ UNCHANGED <<now, triggered, openVars, printVars, cloudVars, queryVars, cartVars, checkoutVars, salesVars, salesHist, pushVars, productVars, lastReplace,
                 lastSync, events, pull, pullResult, pullPre, lastPage, replaces,
                 lastWriter, pullsStarted, pullTrace>>

(* time passes *)
Tick ==
  /\ now < MaxTime
  /\ now' = now + 1
  /\ UNCHANGED <<triggered, openVars, printVars, salesVars, salesHist, cloudVars, queryVars, cartVars, checkoutVars, productVars, lastReplace, pullVars, pushVars>>

(* ---------------------------------------------------------------------- *)
(* Sales push: syncSales and syncPendingSales                              *)
(* ---------------------------------------------------------------------- *)

(* the count taken over the rows WHERE synced = 1 *)
getPendingSalesCount_CountsSynced(db) == Len(SelectSeq(db.sales, LAMBDA r : r.synced))

(* getPendingSalesCount: the number of sales rows WHERE synced = 0 *)
getPendingSalesCount(db) == Len(SelectSeq(db.sales, LAMBDA r : ~r.synced))

(* ORDER BY datetime(createdAt) ASC over rows already in rowid order: rows  *)
(* of one second keep their rowid order.                                   *)
RECURSIVE SortByCreatedAt(_)
SortByCreatedAt(rows) ==
  IF rows = << >> THEN << >>
  ELSE LET first == CHOOSE k \in 1..Len(rows) :
                      /\ \A j \in 1..Len(rows) : rows[k].createdAt <= rows[j].createdAt
                      /\ \A j \in 1..(k - 1) : rows[j].createdAt > rows[k].createdAt
       IN <<rows[first]>> \o
          SortByCreatedAt([j \in 1..(Len(rows) - 1) |-> IF j < first THEN rows[j] ELSE rows[j + 1]])

(* a sales row with its line items (buildSaleFromRow) *)
buildSaleFromRow(db, row) ==
  [id |-> row.id, synced |-> row.synced, items |-> getSaleItems(db, row.id),
   totals |-> row.totals]

(* getPendingSales with ORDER BY ... DESC in place of ASC *)
getPendingSales_Descending(db) ==
  LET rows == SortByCreatedAt(SelectSeq(db.sales, LAMBDA r : ~r.synced))
  IN [k \in 1..Len(rows) |-> buildSaleFromRow(db, rows[Len(rows) + 1 - k])]

(* getPendingSales with its WHERE synced = 0 left out *)
getPendingSales_NoFilter(db) ==
  LET rows == SortByCreatedAt(db.sales)
  IN [k \in 1..Len(rows) |-> buildSaleFromRow(db, rows[k])]

(* getPendingSales: all sales rows WHERE synced = 0 ORDER BY                *)
(* datetime(createdAt) ASC, each row with its line items                   *)
getPendingSales(db) ==
  LET rows == SortByCreatedAt(SelectSeq(db.sales, LAMBDA r : ~r.synced))
  IN [k \in 1..Len(rows) |-> buildSaleFromRow(db, rows[k])]

(* ORDER BY datetime(createdAt) DESC over rows in rowid order: the sorter   *)
(* compares the keys only, so rows of one second keep their rowid order.   *)
RECURSIVE SortByCreatedAtDesc(_)
SortByCreatedAtDesc(rows) ==
  IF rows = << >> THEN << >>
  ELSE LET first == CHOOSE k \in 1..Len(rows) :
                      /\ \A j \in 1..Len(rows) : rows[k].createdAt >= rows[j].createdAt
                      /\ \A j \in 1..(k - 1) : rows[j].createdAt < rows[k].createdAt
       IN <<rows[first]>> \o
          SortByCreatedAtDesc([j \in 1..(Len(rows) - 1) |->
                                 IF j < first THEN rows[j] ELSE rows[j + 1]])

(* getAllSales: all sales rows ORDER BY datetime(createdAt) DESC, each row  *)
(* with its line items                                                     *)
getAllSales(db) ==
  LET rows == SortByCreatedAtDesc(db.sales)
  IN [k \in 1..Len(rows) |-> buildSaleFromRow(db, rows[k])]

IdlePush == [pc |-> "idle", queue |-> << >>, pos |-> 1, synced |-> 0, failed |-> 0]

NoSummary == [status |-> "none", synced |-> 0, failed |-> 0]

(* handleCompleteSale: saveSaleOffline({...sale, synced: false}); the sale  *)
(* id is a fresh crypto.randomUUID().                                      *)
CompleteSale(sale) ==
  /\ \A k \in 1..Len(salesDb.sales) : salesDb.sales[k].id # sale.id
  /\ SaveSale([sale EXCEPT !.synced = FALSE])
  /\ UNCHANGED <<now, triggered, openVars, printVars, cloudVars, queryVars, cartVars, checkoutVars, salesHist, productVars, lastReplace, pullVars, pushVars>>

(* the call syncPendingSales() *)
BeginPush(q) ==
  /\ push' = [push EXCEPT ![q] = [IdlePush EXCEPT !.pc = "read"]]
  /\ pushResult' = [pushResult EXCEPT ![q] = NoSummary]
  /\ attempted' = [attempted EXCEPT ![q] = << >>]
  /\ pendingAtStart' = [pendingAtStart EXCEPT ![q] = {}]
  /\ storedAtStart' = [storedAtStart EXCEPT ![q] = {}]

(* syncSales up to await syncPendingSales(): nothing to do when no sale is  *)
(* pending, else the syncing flag is raised and the push begins.           *)
syncSales(q) ==
  /\ push[q].pc = "idle"
  /\ IF getPendingSalesCount(salesDb) = 0
     THEN UNCHANGED <<isSyncingCloud, push, pushResult, attempted, pendingAtStart,
                      storedAtStart>>
     ELSE /\ isSyncingCloud' = TRUE
          /\ BeginPush(q)
  /\ UNCHANGED <<now, openVars, printVars, cloudVars, queryVars, cartVars, checkoutVars, salesVars, salesHist, productVars, lastReplace, pullVars, remote>>

(* syncSales called by the online handler, the interval or the mount effect *)
SyncSalesStart(q) == syncSales(q) /\ UNCHANGED triggered

(* the syncSales() that handleCompleteSale called for the sale it stored *)
SyncCompletedSale(q) ==
  /\ triggered # << >>
  /\ syncSales(q)
  /\ triggered' = Tail(triggered)

(* syncPendingSales: read all pending sales, oldest first *)
PushRead(q) ==
  /\ push[q].pc = "read"
  /\ LET pending == getPendingSales(salesDb)
     IN push' = [push EXCEPT ![q].queue = pending,
                             ![q].pc = IF pending = << >> THEN "done" ELSE "submit"]
  /\ storedAtStart' = [storedAtStart EXCEPT ![q] =
       { salesDb.sales[k].id : k \in 1..Len(salesDb.sales) }]
  /\ pendingAtStart' = [pendingAtStart EXCEPT ![q] =
       { salesDb.sales[k].id : k \in { j \in 1..Len(salesDb.sales) : ~salesDb.sales[j].synced } }]
  /\ UNCHANGED <<now, triggered, openVars, printVars, cloudVars, queryVars, cartVars, checkoutVars, salesVars, salesHist, productVars, lastReplace, pullVars,
                 remote, isSyncingCloud, pushResult, attempted>>

(* syncPendingSales: the submission of queue[pos] settles.  outcome "ok":   *)
(* accepted, 2xx; "status": refused, non-2xx; "network": the request never *)
(* arrived; "lost": accepted, but the answer never arrived.                *)
PushSubmit(q, outcome) ==
  /\ push[q].pc = "submit"
  /\ LET sale == push[q].queue[push[q].pos]
     IN /\ remote' = IF outcome \in {"ok", "lost"} THEN remote \cup {sale.id} ELSE remote
        /\ attempted' = [attempted EXCEPT ![q] = Append(@, [id |-> sale.id, outcome |-> outcome])]
        /\ IF outcome = "ok"
           THEN push' = [push EXCEPT ![q].pc = "mark"]
           ELSE push' = [push EXCEPT ![q].failed = @ + 1,
                                     ![q].pos = @ + 1,
                                     ![q].pc = IF push[q].pos = Len(push[q].queue)
                                               THEN "done" ELSE "submit"]
  /\ UNCHANGED <<now, triggered, openVars, printVars, cloudVars, queryVars, cartVars, checkoutVars, salesVars, salesHist, productVars, lastReplace, pullVars,
                 isSyncingCloud, pushResult, pendingAtStart, storedAtStart>>

(* syncPendingSales: on success mark that sale synced at once *)
PushMark(q) ==
  /\ push[q].pc = "mark"
  /\ markSaleSynced(push[q].queue[push[q].pos].id)
  /\ push' = [push EXCEPT ![q].synced = @ + 1,
                          ![q].pos = @ + 1,
                          ![q].pc = IF push[q].pos = Len(push[q].queue)
                                    THEN "done" ELSE "submit"]
  /\ UNCHANGED <<now, triggered, openVars, printVars, cloudVars, queryVars, cartVars, checkoutVars, salesHist, productVars, lastReplace, pullVars,
                 remote, isSyncingCloud, pushResult, attempted, pendingAtStart,
                 storedAtStart>>

(* syncPendingSales returns {synced, failed}; syncSales refreshes and, in   *)
(* its finally, lowers the syncing flag.                                   *)
SyncSalesFinish(q) ==
  /\ push[q].pc = "done"
  /\ pushResult' = [pushResult EXCEPT ![q] =
       [status |-> "done", synced |-> push[q].synced, failed |-> push[q].failed]]
  /\ push' = [push EXCEPT ![q].pc = "idle"]
  /\ isSyncingCloud' = FALSE
  /\ UNCHANGED <<now, triggered, openVars, printVars, cloudVars, queryVars, cartVars, checkoutVars, salesVars, salesHist, productVars, lastReplace, pullVars,
                 remote, attempted, pendingAtStart, storedAtStart>>

(* ---------------------------------------------------------------------- *)
(* Catalog queries: searchProductsOffline and findProductByCodeOffline     *)
(* ---------------------------------------------------------------------- *)

(* the characters of the strings that occur in the catalog *)
Chars(str) ==
  CASE str = "A" -> <<"A">>
    [] str = "B" -> <<"B">>
    [] str = "C" -> <<"C">>
    [] str = "a" -> <<"a">>
    [] str = "b" -> <<"b">>
    [] str = "c" -> <<"c">>
    [] str = "K1" -> <<"K", "1">>
    [] str = "k1" -> <<"k", "1">>
    [] str = "p1" -> <<"p", "1">>
    [] str = "p2" -> <<"p", "2">>
    [] str = "p3" -> <<"p", "3">>
    [] str = "" -> << >>

(* the code unit of a character: the BINARY collation compares these *)
CharCode(c) ==
  CASE c = " " -> 32 [] c = "%" -> 37 [] c = "1" -> 49 [] c = "2" -> 50 [] c = "3" -> 51
    [] c = "A" -> 65 [] c = "B" -> 66 [] c = "C" -> 67 [] c = "K" -> 75 [] c = "P" -> 80
    [] c = "_" -> 95 [] c = "a" -> 97 [] c = "b" -> 98 [] c = "c" -> 99 [] c = "k" -> 107
    [] c = "p" -> 112 [] c = "x" -> 120

LowerChar(c) ==
  CASE c = "A" -> "a" [] c = "B" -> "b" [] c = "C" -> "c" [] c = "K" -> "k" [] c = "P" -> "p"
    [] OTHER -> c

(* String.prototype.toLowerCase on a sequence of characters *)
LowerCase(text) == [k \in 1..Len(text) |-> LowerChar(text[k])]

(* String.prototype.trim *)
RECURSIVE Trim(_)
Trim(text) ==
  IF text = << >> THEN text
  ELSE IF Head(text) = " " THEN Trim(Tail(text))
  ELSE IF text[Len(text)] = " " THEN Trim(SubSeq(text, 1, Len(text) - 1))
  ELSE text

(* SQLite's LIKE: % matches any run of characters, _ any one character,    *)
(* any other character itself, letters of ASCII without regard to case.    *)
RECURSIVE Like(_, _)
Like(text, pattern) ==
  IF pattern = << >> THEN text = << >>
  ELSE IF Head(pattern) = "%"
       THEN Like(text, Tail(pattern)) \/ (text # << >> /\ Like(Tail(text), pattern))
  ELSE /\ text # << >>
       /\ Head(pattern) = "_" \/ LowerChar(Head(pattern)) = LowerChar(Head(text))
       /\ Like(Tail(text), Tail(pattern))

(* a column value LIKE a pattern: NULL is like nothing *)
ColumnLike(value, pattern) == value # Undefined /\ Like(Chars(value), pattern)

(* text1 < text2 in the BINARY collation *)
RECURSIVE TextLess(_, _)
TextLess(text1, text2) ==
  IF text2 = << >> THEN FALSE
  ELSE IF text1 = << >> THEN TRUE
  ELSE IF CharCode(Head(text1)) # CharCode(Head(text2))
       THEN CharCode(Head(text1)) < CharCode(Head(text2))
  ELSE TextLess(Tail(text1), Tail(text2))

(* WHERE nameLower LIKE ? OR skuLower LIKE ? OR id LIKE ?, or no WHERE *)
SearchMatches(db, trimmed) ==
  IF trimmed = << >> THEN DOMAIN db
  ELSE LET q == <<"%">> \o LowerCase(trimmed) \o <<"%">>
       IN { i \in DOMAIN db :
              \/ ColumnLike(db[i].nameLower, q)
              \/ ColumnLike(db[i].skuLower, q)
              \/ ColumnLike(db[i].id, q) }

(* row1 comes before row2 under ORDER BY name ASC; rows of one name keep    *)
(* the order of the table scan, which is fixed while the catalog is        *)
(* unchanged (here: the order of their keys).                              *)
RowBefore(row1, row2) ==
  \/ TextLess(Chars(row1.name), Chars(row2.name))
  \/ row1.name = row2.name /\ TextLess(Chars(row1.id), Chars(row2.id))

(* the rows of ids under ORDER BY name ASC *)
OrderByName(db, ids) ==
  [k \in 1..Cardinality(ids) |->
     db[CHOOSE i \in ids : Cardinality({j \in ids : RowBefore(db[j], db[i])}) = k - 1]]

(* the product object built from a result row *)
ProductOfRow(row) ==
  [id |-> row.id, sku |-> row.sku, name |-> row.name,
   sellingPrice |-> row.sellingPrice, stockQuantity |-> row.stockQuantity]

Min(a, b) == IF a <= b THEN a ELSE b

(* the search with OFFSET page * pageSize *)
searchProductsOffline_OffsetFromPage(db, page, pageSize, search) ==
  LET trimmed == Trim(search)
      normalizedPageSize == Max(1, pageSize)
      matches == SearchMatches(db, trimmed)
      total == Cardinality(matches)
      totalPages == Max(CeilDiv(total, normalizedPageSize), 1)
      normalizedPage == Min(Max(1, page), totalPages)
      offset == normalizedPage * normalizedPageSize
      rows == OrderByName(db, matches)
      items == SubSeq(rows, offset + 1, Min(offset + normalizedPageSize, Len(rows)))
  IN [products |-> [k \in 1..Len(items) |-> ProductOfRow(items[k])],
      total |-> total, totalPages |-> totalPages, page |-> normalizedPage]

(* searchProductsOffline(page, pageSize, search) *)
searchProductsOffline(db, page, pageSize, search) ==
  LET trimmed == Trim(search)
      normalizedPageSize == Max(1, pageSize)
      matches == SearchMatches(db, trimmed)
      total == Cardinality(matches)
      totalPages == Max(CeilDiv(total, normalizedPageSize), 1)
      normalizedPage == Min(Max(1, page), totalPages)
      offset == (normalizedPage - 1) * normalizedPageSize
      rows == OrderByName(db, matches)
      items == SubSeq(rows, offset + 1, Min(offset + normalizedPageSize, Len(rows)))
  IN [products |-> [k \in 1..Len(items) |-> ProductOfRow(items[k])],
      total |-> total, totalPages |-> totalPages, page |-> normalizedPage]

(* WHERE skuLower = ? OR id = ? *)
CodeMatches(db, normalized) ==
  { i \in DOMAIN db :
      \/ db[i].skuLower # Undefined /\ Chars(db[i].skuLower) = LowerCase(normalized)
      \/ Chars(db[i].id) = normalized }

(* findProductByCodeOffline(code): the products it can return (none for    *)
(* null); LIMIT 1 takes the first row the scan meets, any one of the       *)
(* matching rows.                                                          *)
findProductByCodeOffline(db, code) ==
  LET normalized == Trim(code)
  IN IF normalized = << >> THEN {<< >>}
     ELSE IF CodeMatches(db, normalized) = {} THEN {<< >>}
     ELSE { <<ProductOfRow(db[i])>> : i \in CodeMatches(db, normalized) }

(* a call of searchProductsOffline *)
SearchProducts(page, pageSize, search) ==
  /\ lastSearch' = <<[page |-> page, pageSize |-> pageSize, search |-> search,
                      result |-> searchProductsOffline(productsDb, page, pageSize, search)]>>
  /\ lastFind' = << >>
  /\ UNCHANGED <<now, triggered, openVars, printVars, cartVars, checkoutVars, salesVars, salesHist, pushVars, cloudVars, productVars, lastReplace,
                 pullVars>>

(* a call of findProductByCodeOffline *)
FindProductByCode(code) ==
  /\ \E found \in findProductByCodeOffline(productsDb, code) :
       lastFind' = <<[code |-> code, found |-> found]>>
  /\ lastSearch' = << >>
  /\ UNCHANGED <<now, triggered, openVars, printVars, cartVars, checkoutVars, salesVars, salesHist, pushVars, cloudVars, productVars, lastReplace,
                 pullVars>>

(* ---------------------------------------------------------------------- *)
(* Cart: addToCart, updateQuantity, removeFromCart.  Quantities and stock  *)
(* are counted in quarters of a unit.                                      *)
(* ---------------------------------------------------------------------- *)
(* 0.25, 0.5, 0.75 and 1 *)
Quarter == 1
Half == 2
ThreeQuarters == 3
Whole == 4

CartIds == {"p1", "p2"}

(* cart.find(item => item.id === id)?.quantity ?? 0 *)
getCartQuantity(lines, id) ==
  IF \E k \in 1..Len(lines) : lines[k].id = id
  THEN lines[CHOOSE k \in 1..Len(lines) : lines[k].id = id].quantity
  ELSE 0

(* updateQuantity without its filter(item => item.quantity > 0) *)
updateQuantity_KeepsZero(lines, index, id, delta) ==
  LET product == index[id]
      newQty(quantity) ==
        IF delta > 0
        THEN IF quantity = Quarter THEN Half
             ELSE IF quantity = Half THEN ThreeQuarters
             ELSE IF quantity = ThreeQuarters THEN Whole
             ELSE quantity + Whole
        ELSE IF delta < 0
        THEN IF quantity > Whole THEN quantity - Whole
             ELSE IF quantity = Whole THEN ThreeQuarters
             ELSE IF quantity = ThreeQuarters THEN Half
             ELSE IF quantity = Half THEN Quarter
             ELSE IF quantity = Quarter THEN 0
             ELSE quantity
        ELSE quantity
      step(item) ==
        IF item.id # id THEN item
        ELSE IF delta > 0 /\ product # << >> /\ newQty(item.quantity) > product[1]
        THEN item
        ELSE [item EXCEPT !.quantity = newQty(@)]
  IN [k \in 1..Len(lines) |-> step(lines[k])]

(* updateQuantity with the increment of addToCart: 0.5 goes straight to 1 *)
updateQuantity_HalfToWhole(lines, index, id, delta) ==
  LET product == index[id]
      newQty(quantity) ==
        IF delta > 0
        THEN IF quantity = Quarter THEN Half
             ELSE IF quantity = Half THEN Whole
             ELSE quantity + Whole
        ELSE IF delta < 0
        THEN IF quantity > Whole THEN quantity - Whole
             ELSE quantity - Quarter
        ELSE quantity
      step(item) ==
        IF item.id # id THEN item
        ELSE IF delta > 0 /\ product # << >> /\ newQty(item.quantity) > product[1]
        THEN item
        ELSE [item EXCEPT !.quantity = newQty(@)]
  IN SelectSeq([k \in 1..Len(lines) |-> step(lines[k])], LAMBDA item : item.quantity > 0)

(* updateQuantity(id, delta): the cart it hands to setCart *)
updateQuantity(lines, index, id, delta) ==
  LET product == index[id]
      newQty(quantity) ==
        IF delta > 0
        THEN IF quantity = Quarter THEN Half
             ELSE IF quantity = Half THEN ThreeQuarters
             ELSE IF quantity = ThreeQuarters THEN Whole
             ELSE quantity + Whole
        ELSE IF delta < 0
        THEN IF quantity > Whole THEN quantity - Whole
             ELSE IF quantity = Whole THEN ThreeQuarters
             ELSE IF quantity = ThreeQuarters THEN Half
             ELSE IF quantity = Half THEN Quarter
             ELSE IF quantity = Quarter THEN 0
             ELSE quantity
        ELSE quantity
      step(item) ==
        IF item.id # id THEN item
        ELSE IF delta > 0 /\ product # << >> /\ newQty(item.quantity) > product[1]
        THEN item
        ELSE [item EXCEPT !.quantity = newQty(@)]
  IN SelectSeq([k \in 1..Len(lines) |-> step(lines[k])], LAMBDA item : item.quantity > 0)

(* addToCart(product): the cart it hands to setCart, or the cart as it is  *)
(* after an alert                                                          *)
addToCart(lines, product) ==
  LET existing == \E k \in 1..Len(lines) : lines[k].id = product.id
      currentQty == getCartQuantity(lines, product.id)
      nextQty == IF existing
                 THEN IF currentQty = Quarter THEN Half
                      ELSE IF currentQty = Half THEN Whole
                      ELSE currentQty + Whole
                 ELSE IF product.stockQuantity >= Whole THEN Whole ELSE product.stockQuantity
  IN IF product.stockQuantity <= 0 THEN lines
     ELSE IF nextQty <= 0 \/ nextQty > product.stockQuantity THEN lines
     ELSE IF existing
     THEN [k \in 1..Len(lines) |->
             IF lines[k].id = product.id THEN [lines[k] EXCEPT !.quantity = nextQty] ELSE lines[k]]
     ELSE Append(lines, [id |-> product.id, name |-> product.name,
                         price |-> product.sellingPrice, quantity |-> nextQty])

(* a click on a product tile, or a scanned code that found the product *)
AddToCart(product) ==
  /\ productIndex' = [productIndex EXCEPT ![product.id] = <<product.stockQuantity>>]
  /\ cart' = addToCart(cart, product)
  /\ lastStep' = << >>
  /\ UNCHANGED <<now, triggered, openVars, printVars, checkoutVars, salesVars, salesHist, pushVars, cloudVars, queryVars, productVars,
                 lastReplace, pullVars>>

(* a click on the plus or the minus button of a cart line *)
UpdateQuantity(id, delta) ==
  /\ delta > 0 => getCartQuantity(cart, id) + Whole <= Whole * MaxUnits
  /\ cart' = updateQuantity(cart, productIndex, id, delta)
  /\ lastStep' = <<[id |-> id, delta |-> delta, before |-> getCartQuantity(cart, id),
                    product |-> productIndex[id]]>>
  /\ UNCHANGED <<now, triggered, openVars, printVars, checkoutVars, salesVars, salesHist, pushVars, cloudVars, queryVars, productVars,
                 lastReplace, pullVars, productIndex>>

(* removeFromCart(id) *)
RemoveFromCart(id) ==
  /\ cart' = SelectSeq(cart, LAMBDA item : item.id # id)
  /\ lastStep' = << >>
  /\ UNCHANGED <<now, triggered, openVars, printVars, checkoutVars, salesVars, salesHist, pushVars, cloudVars, queryVars, productVars,
                 lastReplace, pullVars, productIndex>>

(* fetchProducts puts a product of the page it loaded into the index *)
IndexProduct(product) ==
  /\ productIndex' = [productIndex EXCEPT ![product.id] = <<product.stockQuantity>>]
  /\ lastStep' = << >>
  /\ UNCHANGED <<now, triggered, openVars, printVars, checkoutVars, salesVars, salesHist, pushVars, cloudVars, queryVars, productVars,
                 lastReplace, pullVars, cart>>

(* the sales screen is mounted again: the index starts empty, the cart is  *)
(* the one the App holds                                                   *)
Remount ==
  /\ productIndex' = [id \in CartIds |-> << >>]
  /\ lastStep' = << >>
  /\ UNCHANGED <<now, triggered, openVars, printVars, checkoutVars, salesVars, salesHist, pushVars, cloudVars, queryVars, productVars,
                 lastReplace, pullVars, cart>>

(* ---------------------------------------------------------------------- *)
(* Checkout: the totals of the sales screen, openCheckout, confirmCheckout *)
(* and handleCompleteSale.  Prices are whole currency units and quantities *)
(* quarters, so every amount is counted in quarters of a currency unit;    *)
(* such amounts are exact in binary and have two decimals, so that         *)
(* total.toFixed(2) read back by Number() is the total itself.             *)
(* ---------------------------------------------------------------------- *)
(* what the Amount Paid field holds: nothing, a number, or digits that      *)
(* Number() reads as Infinity                                              *)
EmptyInput == [kind |-> "empty", value |-> 0]

NumberInput(value) == [kind |-> "number", value |-> value]

OverflowInput == [kind |-> "overflow", value |-> 0]

(* cart.reduce((sum, item) => sum + item.price * item.quantity, 0) *)
RECURSIVE subtotal(_)
subtotal(lines) ==
  IF lines = << >> THEN 0
  ELSE subtotal(SubSeq(lines, 1, Len(lines) - 1))
         + lines[Len(lines)].price * lines[Len(lines)].quantity

(* the total taken without the discount *)
total_IgnoresDiscount(lines, off) == subtotal(lines)

total(lines, off) == subtotal(lines) - off

(* amountPaid: Number(amountPaidInput), or null (<< >>) when not finite *)
amountPaid(input) ==
  IF input.kind = "number" THEN <<input.value>>
  ELSE IF input.kind = "empty" THEN <<0>>
  ELSE << >>

(* changeGiven: amountPaid - total, or null (<< >>) *)
changeGiven(paid, due) == IF paid = << >> THEN << >> ELSE <<paid[1] - due>>

(* setDiscount(Math.max(0, parseFloat(e.target.value) || 0)) *)
SetDiscount(value) ==
  /\ currentScreen = "sales"
  /\ discount' = Max(0, IF value = NaN THEN 0 ELSE value)
  /\ UNCHANGED <<now, triggered, openVars, printVars, cartVars, salesVars, salesHist, pushVars, cloudVars, queryVars,
                 productVars, lastReplace, pullVars, amountPaidInput, isCheckoutOpen,
                 isCompletingSale, checkout, currentSale, currentScreen, lastConfirm>>

(* openCheckout, when it does not return at once *)
OpenCheckout ==
  /\ currentScreen = "sales"
  /\ ~(Len(cart) = 0 \/ isCompletingSale)
  /\ amountPaidInput' = IF total(cart, discount) > 0 THEN NumberInput(total(cart, discount))
                        ELSE NumberInput(0)
  /\ isCheckoutOpen' = TRUE
  /\ UNCHANGED <<now, triggered, openVars, printVars, cartVars, salesVars, salesHist, pushVars, cloudVars, queryVars,
                 productVars, lastReplace, pullVars, discount, isCompletingSale, checkout,
                 currentSale, currentScreen, lastConfirm>>

(* closeCheckout, when it does not return at once *)
CloseCheckout ==
  /\ isCheckoutOpen
  /\ ~isCompletingSale
  /\ isCheckoutOpen' = FALSE
  /\ UNCHANGED <<now, triggered, openVars, printVars, cartVars, salesVars, salesHist, pushVars, cloudVars, queryVars,
                 productVars, lastReplace, pullVars, discount, amountPaidInput,
                 isCompletingSale, checkout, currentSale, currentScreen, lastConfirm>>

(* the Amount Paid field is edited *)
TypeAmount(input) ==
  /\ isCheckoutOpen
  /\ amountPaidInput' = input
  /\ UNCHANGED <<now, triggered, openVars, printVars, cartVars, salesVars, salesHist, pushVars, cloudVars, queryVars,
                 productVars, lastReplace, pullVars, discount, isCheckoutOpen,
                 isCompletingSale, checkout, currentSale, currentScreen, lastConfirm>>

(* the Sale object built by handleCompleteSale(paid, change) *)
BuildSale(id, lines, off, paid, change) ==
  [id |-> id, items |-> lines, synced |-> FALSE,
   totals |-> [subtotal |-> subtotal(lines), discount |-> off,
               totalAmount |-> total(lines, off), amountPaid |-> paid,
               changeGiven |-> change]]

(* the ids the model lets crypto.randomUUID() return *)
TillSaleIds == {"s1"}

(* confirmCheckout without its test of changeGiven *)
ConfirmProceeds_AnyChange(paid, change) == paid # << >> /\ change # << >>

(* confirmCheckout gets past its two early returns *)
ConfirmProceeds(paid, change) == paid # << >> /\ change # << >> /\ ~(change[1] < 0)

(* confirmCheckout, up to the await in handleCompleteSale; the id of the    *)
(* sale is a fresh crypto.randomUUID()                                     *)
ConfirmCheckout ==
  LET paid == amountPaid(amountPaidInput)
      change == changeGiven(paid, total(cart, discount))
      proceeds == ConfirmProceeds(paid, change) /\ ~(Len(cart) = 0 \/ isCompletingSale)
      used == { salesDb.sales[k].id : k \in 1..Len(salesDb.sales) }
  IN /\ isCheckoutOpen
     /\ used # TillSaleIds
     /\ lastConfirm' = <<[numeric |-> paid # << >>,
                          change |-> IF change = << >> THEN "none"
                                     ELSE IF change[1] < 0 THEN "negative"
                                     ELSE IF change[1] = 0 THEN "zero" ELSE "positive",
                          idle |-> ~(Len(cart) = 0 \/ isCompletingSale),
                          created |-> proceeds]>>
     /\ IF proceeds
        THEN /\ isCompletingSale' = TRUE
             /\ \E id \in TillSaleIds \ used :
                  checkout' = <<BuildSale(id, cart, discount, paid[1], change[1])>>
        ELSE UNCHANGED <<isCompletingSale, checkout>>
     /\ UNCHANGED <<now, triggered, openVars, printVars, cartVars, salesVars, salesHist, pushVars, cloudVars, queryVars,
                    productVars, lastReplace, pullVars, discount, amountPaidInput,
                    isCheckoutOpen, currentSale, currentScreen>>

(* confirmCheckout run once more by the click handler of the render that   *)
(* dispatched the confirmation being completed: that render's closure      *)
(* holds isCompletingSale = false and the cart, discount and amount of the *)
(* first run, so handleCompleteSale passes its guard and builds a second   *)
(* Sale with a fresh crypto.randomUUID()                                   *)
ConfirmCheckoutFromSameRender ==
  LET paid == amountPaid(amountPaidInput)
      change == changeGiven(paid, total(cart, discount))
      used == { salesDb.sales[k].id : k \in 1..Len(salesDb.sales) } \cup
              { checkout[k].id : k \in 1..Len(checkout) }
  IN /\ isCheckoutOpen
     /\ Len(checkout) = 1
     /\ ConfirmProceeds(paid, change) /\ Len(cart) # 0
     /\ isCompletingSale' = TRUE
     /\ \E id \in SaleIds \ used :
          checkout' = Append(checkout, BuildSale(id, cart, discount, paid[1], change[1]))
     /\ UNCHANGED <<now, triggered, openVars, printVars, cartVars, salesVars, salesHist, pushVars, cloudVars, queryVars,
                    productVars, lastReplace, pullVars, discount, amountPaidInput,
                    isCheckoutOpen, currentSale, currentScreen, lastConfirm>>

(* App.handleCompleteSale(sale) after its awaits, and the finally of the    *)
(* screen's handleCompleteSale: the sale is stored with synced false, the  *)
(* cart is emptied and the receipt is shown; the sales screen is no longer *)
(* rendered, and its state starts afresh when it is rendered again; when   *)
(* navigator.onLine, syncSales() is called                                 *)
StoreCheckedOutSale ==
  /\ checkout # << >>
  /\ SaveSale([checkout[1] EXCEPT !.synced = FALSE])
  /\ currentSale' = <<[checkout[1] EXCEPT !.synced = FALSE]>>
  /\ cart' = << >>
  /\ currentScreen' = "receipt"
  /\ checkout' = Tail(checkout)
  /\ isCompletingSale' = FALSE
  /\ discount' = 0
  /\ amountPaidInput' = EmptyInput
  /\ isCheckoutOpen' = FALSE
  /\ productIndex' = [id \in CartIds |-> << >>]
  /\ lastStep' = << >>
  /\ triggered' = IF online THEN Append(triggered, checkout[1].id) ELSE triggered
  /\ UNCHANGED <<now, openVars, printVars, salesHist, pushVars, cloudVars, queryVars, productVars, lastReplace,
                 pullVars, lastConfirm>>

(* why saveSaleOffline rejects for a sale whose lines all bind: getDatabase *)
(* rejects ("open"), or localStorage.setItem throws in persistDatabase     *)
(* after the rows were written ("quota")                                   *)
SaveFailures == {"open", "quota"}

(* the rejection of App.handleCompleteSale with the cart emptied all the same *)
CompleteSaleRejects_ClearsCart(cause) ==
  /\ checkout # << >>
  /\ salesDb' = IF cause = "quota"
                THEN saveSaleOffline(salesDb, salesSnap, [checkout[1] EXCEPT !.synced = FALSE], now).db
                ELSE salesDb
  /\ salesSnap' = salesSnap
  /\ checkout' = Tail(checkout)
  /\ isCompletingSale' = FALSE
  /\ cart' = << >>
  /\ UNCHANGED <<now, triggered, openVars, printVars, salesHist, pushVars, cloudVars, queryVars, productVars,
                 lastReplace, pullVars, productIndex, lastStep, discount, amountPaidInput,
                 isCheckoutOpen, currentSale, currentScreen, lastConfirm>>

(* App.handleCompleteSale(sale) when await saveSaleOffline(saleRecord)      *)
(* rejects: none of the statements after it runs, and the finally of the   *)
(* screen's handleCompleteSale lowers isCompletingSale                     *)
CompleteSaleRejects(cause) ==
  /\ checkout # << >>
  /\ salesDb' = IF cause = "quota"
                THEN saveSaleOffline(salesDb, salesSnap, [checkout[1] EXCEPT !.synced = FALSE], now).db
                ELSE salesDb
  /\ salesSnap' = salesSnap
  /\ checkout' = Tail(checkout)
  /\ isCompletingSale' = FALSE
  /\ UNCHANGED <<now, triggered, openVars, printVars, cartVars, salesHist, pushVars, cloudVars, queryVars,
                 productVars, lastReplace, pullVars, discount, amountPaidInput,
                 isCheckoutOpen, currentSale, currentScreen, lastConfirm>>

(* handleBackToPOS *)
BackToPOS ==
  /\ currentScreen = "receipt"
  /\ currentScreen' = "sales"
  /\ currentSale' = << >>
  /\ UNCHANGED <<now, triggered, openVars, printVars, cartVars, salesVars, salesHist, pushVars, cloudVars, queryVars,
                 productVars, lastReplace, pullVars, discount, amountPaidInput,
                 isCheckoutOpen, isCompletingSale, checkout, lastConfirm>>

(* ---------------------------------------------------------------------- *)
(* Receipt encoder: buildEscPosReceipt.  The output is the list of the     *)
(* buffers pushed, each with the section it belongs to; a command buffer   *)
(* holds bytes, a line buffer holds the characters of the line and its     *)
(* newline (one byte each in the ascii encoding).  Amounts are counted in  *)
(* quarters of a currency unit, NaN stands for a missing or non-numeric    *)
(* number, the empty sequence for a missing or empty text (both falsy).    *)
(* ---------------------------------------------------------------------- *)
ESC == 27
GS == 29

nameWidth == 24
qtyWidth == 4
priceWidth == 10
totalWidth == 10

(* the columns of the totals rows *)
labelWidth == 24
amountWidth == 24

Command(section, bytes) == [section |-> section, bytes |-> bytes, text |-> << >>]

(* line(text): Buffer.from(text + newline, 'ascii') *)
line(section, text) == [section |-> section, bytes |-> << >>, text |-> text \o <<"\n">>]

setAlign(section, n) == Command(section, <<ESC, 97, n>>)

setTextSize(section, w, h) == Command(section, <<GS, 33, (w - 1) * 16 + (h - 1)>>)

feed(section, lines) == Command(section, <<ESC, 100, lines>>)

cut(section) == Command(section, <<GS, 86, 0>>)

Spaces(n) == [k \in 1..n |-> " "]

(* padRight with a field twice as wide as asked *)
padRight_NoTruncation(text, width) ==
  IF Len(text) >= width THEN text ELSE text \o Spaces(width - Len(text))

padRight(text, width) ==
  IF Len(text) >= width THEN SubSeq(text, 1, width) ELSE text \o Spaces(width - Len(text))

padLeft(text, width) ==
  IF Len(text) >= width THEN SubSeq(text, 1, width) ELSE Spaces(width - Len(text)) \o text

(* the decimal digits of a natural number *)
RECURSIVE Digits(_)
Digits(n) ==
  IF n < 10 THEN <<(<<"0", "1", "2", "3", "4", "5", "6", "7", "8", "9">>)[n + 1]>>
  ELSE Digits(n \div 10) \o Digits(n % 10)

Sign(value) == IF value < 0 THEN <<"-">> ELSE << >>

Magnitude(value) == IF value < 0 THEN 0 - value ELSE value

(* Number(value).toFixed(2) of an amount given in quarters *)
ToFixed2(value) ==
  Sign(value) \o Digits(Magnitude(value) \div Whole) \o <<".">> \o
    <<<<"0", "0">>, <<"2", "5">>, <<"5", "0">>, <<"7", "5">>>>[(Magnitude(value) % Whole) + 1]

(* String(value) of a number given in quarters *)
NumberToString(value) ==
  Sign(value) \o Digits(Magnitude(value) \div Whole) \o
    <<<< >>, <<".", "2", "5">>, <<".", "5">>, <<".", "7", "5">>>>[(Magnitude(value) % Whole) + 1]

(* value || 0 *)
OrZero(value) == IF value = NaN THEN 0 ELSE value

GHS ==
  <<"G", "H", "S", " ">>

formatMoney(value) == GHS \o ToFixed2(OrZero(value))

ShopName ==
  <<"S", "i", "k", "a", " ", "V", "e", "n", "t", "u", "r", "e", "s">>

ShopAddress ==
  <<"T", "e", "x", "p", "o", " ", "M", "a", "r", "k", "e", "t", ",", " ",
    "S", "p", "i", "n", "t", "e", "x">>

ShopPhone ==
  <<"P", "h", "o", "n", "e", ":", " ", "0", "5", "5", "4", "4", "9", "2",
    "6", "2", "6">>

RcptLabel ==
  <<"R", "c", "p", "t", ":", " ">>

DateLabel ==
  <<"D", "a", "t", "e", ":", " ">>

PaymentLabel ==
  <<"P", "a", "y", "m", "e", "n", "t", ":", " ">>

SubtotalLabel ==
  <<"S", "u", "b", "t", "o", "t", "a", "l", ":">>

DiscountLabel ==
  <<"D", "i", "s", "c", "o", "u", "n", "t", ":">>

TotalLabel ==
  <<"T", "O", "T", "A", "L", ":">>

ThankYou ==
  <<"T", "h", "a", "n", "k", " ", "y", "o", "u", " ", "f", "o", "r", " ",
    "y", "o", "u", "r", " ", "p", "u", "r", "c", "h", "a", "s", "e", "!">>

ComeAgain ==
  <<"P", "l", "e", "a", "s", "e", " ", "c", "o", "m", "e", " ", "a", "g",
    "a", "i", "n">>

ItemHeading ==
  <<"I", "t", "e", "m">>

QtyHeading ==
  <<"Q", "t", "y">>

PriceHeading ==
  <<"P", "r", "i", "c", "e">>

TotalHeading ==
  <<"T", "o", "t", "a", "l">>

DividerText == [k \in 1..48 |-> "-"]

formatPaymentMethod(method) ==
  IF method = <<"c", "a", "s", "h">> THEN <<"C", "a", "s", "h">>
  ELSE IF method = <<"m", "o", "b", "i", "l", "e", "_", "m", "o", "n", "e", "y">>
    THEN <<"M", "o", "b", "i", "l", "e", " ", "M", "o", "n", "e", "y">>
  ELSE IF method = <<"c", "r", "e", "d", "i", "t">> THEN <<"C", "r", "e", "d", "i", "t">>
  ELSE method

(* the row of one line item; the product of a price in whole currency     *)
(* units and a quantity in quarters is a whole number of quarters          *)
ItemRow(item) ==
  padRight(item.name, nameWidth)
    \o padLeft(NumberToString(OrZero(item.quantity)), qtyWidth)
    \o padLeft(formatMoney(OrZero(item.price)), priceWidth)
    \o padLeft(formatMoney((OrZero(item.price) * OrZero(item.quantity)) \div Whole), totalWidth)

TotalsRow(label, value) == padRight(label, labelWidth) \o padLeft(formatMoney(value), amountWidth)

(* the discount row pushed also for a discount of zero *)
DiscountRows_Always(sale) ==
  IF sale.discount # NaN THEN <<line("discount", TotalsRow(DiscountLabel, sale.discount))>> ELSE << >>

DiscountRows(sale) ==
  IF sale.discount # NaN /\ sale.discount # 0 /\ sale.discount > 0
  THEN <<line("discount", TotalsRow(DiscountLabel, sale.discount))>>
  ELSE << >>

buildEscPosReceipt(sale) ==
  <<Command("reset", <<ESC, 64>>),
    setAlign("header", 1), setTextSize("header", 2, 2), line("header", ShopName),
    setTextSize("header", 1, 1), line("header", ShopAddress), line("header", ShopPhone),
    line("header", << >>), setAlign("header", 0),
    line("divider", DividerText)>>
  \o (IF sale.receiptNumber # << >>
      THEN <<line("receiptNumber", RcptLabel \o sale.receiptNumber)>> ELSE << >>)
  \o (IF sale.date # << >> \/ sale.time # << >>
      THEN <<line("dateTime",
                  Trim(DateLabel \o sale.date \o <<" ", " ">> \o sale.time))>>
      ELSE << >>)
  \o (IF sale.paymentMethod # << >>
      THEN <<line("paymentMethod", PaymentLabel \o formatPaymentMethod(sale.paymentMethod))>>
      ELSE << >>)
  \o <<line("divider", DividerText),
       line("columns", padRight(ItemHeading, nameWidth) \o padLeft(QtyHeading, qtyWidth)
                         \o padLeft(PriceHeading, priceWidth) \o padLeft(TotalHeading, totalWidth)),
       line("divider", DividerText)>>
  \o [k \in 1..Len(sale.items) |-> line("item", ItemRow(sale.items[k]))]
  \o <<line("divider", DividerText),
       line("subtotal", TotalsRow(SubtotalLabel, sale.subtotal))>>
  \o DiscountRows(sale)
  \o <<line("total", TotalsRow(TotalLabel, sale.totalAmount)),
       line("blank", << >>), line("blank", << >>),
       setAlign("thanks", 1), line("thanks", ThankYou), line("thanks", ComeAgain),
       setAlign("thanks", 0),
       feed("feed", 5), cut("cut")>>

(* print-receipt, its first statement: the bytes built for the payload;    *)
(* one payload is encoded per behaviour                                    *)
EncodeReceipt(sale) ==
  /\ lastReceipt = << >>
  /\ lastReceipt' = <<[sale |-> sale, data |-> buildEscPosReceipt(sale)]>>
  /\ UNCHANGED <<now, triggered, openVars, salesVars, salesHist, productVars, lastReplace, pullVars, pushVars,
                 cloudVars, queryVars, cartVars, checkoutVars, lastLabels, printJob, reprint,
                 lastReprint>>

(* ---------------------------------------------------------------------- *)
(* Label encoder: buildEscPosBarcodeLabels.  The output is again the list  *)
(* of the buffers pushed.  generated holds the values that the calls of    *)
(* generateBarcodeValue() return, one per label.                           *)
(* ---------------------------------------------------------------------- *)
escposLine(section, text) ==
  [section |-> section, bytes |-> << >>, text |-> text \o <<"\n">>]

escposInit == Command("init", <<27, 64>>)

escposAlign(n) == Command("align", <<27, 97, n>>)

escposTextSize(w, h) == Command("size", <<29, 33, (w - 1) * 16 + (h - 1)>>)

escposFeed(lines) == Command("feed", <<27, 100, lines>>)

escposCut == Command("cut", <<29, 86, 0>>)

escposBarcodeHeight(n) == Command("height", <<29, 104, n>>)

escposBarcodeWidth(n) == Command("width", <<29, 119, n>>)

escposBarcodeHriPosition(n) == Command("hri", <<29, 72, n>>)

(* the position with its high byte left at zero *)
escposSetAbsolutePosition_LowByteOnly(dots) ==
  Command("position", <<29, 36, Max(0, Min(65535, dots)) % 256, 0>>)

escposSetAbsolutePosition(dots) ==
  LET n == Max(0, Min(65535, dots))
  IN Command("position", <<29, 36, n % 256, (n \div 256) % 256>>)

escposLF == Command("lf", <<10>>)

escposCode128(data) ==
  [section |-> "barcode", bytes |-> <<29, 107, 73, Len(data) % 256>>, text |-> data]

columns == 3

paperWidthDots(paper) == IF paper = 58 THEN 384 ELSE 576

colPositions(paper) ==
  LET colWidth == paperWidthDots(paper) \div columns
  IN <<0, colWidth, colWidth * 2>>

(* the values of the labels: barcodeValue || generateBarcodeValue() *)
LabelValues(job, generated) ==
  [k \in 1..job.qty |-> IF job.barcodeValue # << >> THEN job.barcodeValue ELSE generated[k]]

(* one pass of the loop over the rows, for the values of the row *)
LabelRow(values, paper) ==
  LET barcodes == [k \in 1..(2 * Len(values)) |->
                     IF k % 2 = 1 THEN escposSetAbsolutePosition(colPositions(paper)[(k + 1) \div 2])
                     ELSE escposCode128(<<"{", "B">> \o values[k \div 2])]
      readable == [k \in 1..(2 * Len(values)) |->
                     IF k % 2 = 1 THEN escposSetAbsolutePosition(colPositions(paper)[(k + 1) \div 2])
                     ELSE [section |-> "digits", bytes |-> << >>, text |-> values[k \div 2]]]
  IN barcodes \o <<escposLF, escposTextSize(1, 1)>> \o readable \o <<escposLF, escposFeed(1)>>

RECURSIVE LabelRows(_, _)
LabelRows(values, paper) ==
  IF values = << >> THEN << >>
  ELSE LabelRow(SubSeq(values, 1, Min(columns, Len(values))), paper)
         \o LabelRows(SubSeq(values, Min(columns, Len(values)) + 1, Len(values)), paper)

buildEscPosBarcodeLabels(job, generated) ==
  <<escposInit, escposAlign(1), escposTextSize(1, 1), escposLine("title", job.item),
    escposFeed(1), escposAlign(0), escposBarcodeHriPosition(0), escposBarcodeHeight(55),
    escposBarcodeWidth(2)>>
  \o LabelRows(LabelValues(job, generated), job.paper)
  \o <<escposFeed(3), escposCut>>

(* the values generateBarcodeValue() returns in the model: two of the      *)
(* 10^12 strings of twelve digits                                          *)
GeneratedValues ==
  { [k \in 1..12 |-> IF k = 12 THEN last ELSE "0"] : last \in {"3", "4"} }

(* run, up to the bytes it hands to the printer; calls counts the calls    *)
(* made with this job, same tells whether the bytes of the latest call are *)
(* those of the one before                                                 *)
EncodeLabels(job) ==
  /\ IF lastLabels = << >> THEN TRUE ELSE lastLabels[1].job = job /\ lastLabels[1].calls = 1
  /\ \E generated \in [1..job.qty -> GeneratedValues] :
       LET data == buildEscPosBarcodeLabels(job, generated)
       IN lastLabels' = <<[job |-> job, data |-> data,
                           calls |-> IF lastLabels = << >> THEN 1 ELSE 2,
                           same |-> lastLabels # << >> /\ lastLabels[1].data = data]>>
  /\ UNCHANGED <<now, triggered, openVars, salesVars, salesHist, productVars, lastReplace, pullVars, pushVars,
                 cloudVars, queryVars, cartVars, checkoutVars, lastReceipt, printJob, reprint,
                 lastReprint>>

(* ---------------------------------------------------------------------- *)
(* Printing: the print-receipt handler of the main process and             *)
(* handleReprintInvoice of the renderer                                    *)
(* ---------------------------------------------------------------------- *)

(* an entry of sale.items that is null: reading its name throws *)
NullItem == [null |-> TRUE]

IsNull(item) == "null" \in DOMAIN item

(* buildEscPosReceipt(sale) throws a TypeError in items.forEach *)
EncodingThrows(sale) == \E k \in 1..Len(sale.items) : IsNull(sale.items[k])

(* what printer.getDefaultPrinterName and printer.printDirect do with a    *)
(* job: throw at once, or take it and call success or error later          *)
PrinterOutcomes == {"throws", "accepts"}

(* print-receipt up to the return of its promise.  The receipt is encoded  *)
(* before the promise is made, so an exception of the encoder rejects the  *)
(* promise of the async handler; an exception of the printer library is    *)
(* caught and resolves it to false.                                        *)
PrintReceipt(sale, outcome) ==
  /\ printJob = << >>
  /\ IF EncodingThrows(sale)
     THEN /\ printJob' = <<[promise |-> "rejected", outcome |-> "encoding"]>>
          /\ UNCHANGED lastReceipt
     ELSE /\ printJob' = <<[promise |-> IF outcome = "throws" THEN "false" ELSE "pending",
                            outcome |-> outcome]>>
          /\ lastReceipt' = <<[sale |-> sale, data |-> buildEscPosReceipt(sale)]>>
  /\ UNCHANGED <<now, triggered, openVars, salesVars, salesHist, productVars, lastReplace, pullVars, pushVars,
                 cloudVars, queryVars, cartVars, checkoutVars, lastLabels, reprint, lastReprint>>

(* the success callback of printDirect *)
PrintSucceeds ==
  /\ printJob # << >>
  /\ printJob[1].promise = "pending"
  /\ printJob' = <<[promise |-> "true", outcome |-> "success"]>>
  /\ UNCHANGED <<now, triggered, openVars, salesVars, salesHist, productVars, lastReplace, pullVars, pushVars,
                 cloudVars, queryVars, cartVars, checkoutVars, lastReceipt, lastLabels, reprint,
                 lastReprint>>

(* the error callback of printDirect *)
PrintFails ==
  /\ printJob # << >>
  /\ printJob[1].promise = "pending"
  /\ printJob' = <<[promise |-> "false", outcome |-> "error"]>>
  /\ UNCHANGED <<now, triggered, openVars, salesVars, salesHist, productVars, lastReplace, pullVars, pushVars,
                 cloudVars, queryVars, cartVars, checkoutVars, lastReceipt, lastLabels, reprint,
                 lastReprint>>

(* await window.electronAPI.printReceipt(sale) throws: the invoke of the    *)
(* renderer is rejected, by the handler or before it is reached            *)
PrintCallThrows ==
  /\ reprint # << >>
  /\ printJob = << >>
  /\ printJob' = <<[promise |-> "rejected", outcome |-> "invoke"]>>
  /\ UNCHANGED <<now, triggered, openVars, salesVars, salesHist, productVars, lastReplace, pullVars, pushVars,
                 cloudVars, queryVars, cartVars, checkoutVars, lastReceipt, lastLabels, reprint,
                 lastReprint>>

(* onNavigate = setCurrentScreen *)
Navigate(screen) ==
  /\ currentScreen' = screen
  /\ UNCHANGED <<now, triggered, openVars, printVars, salesVars, salesHist, productVars, lastReplace, pullVars,
                 pushVars, cloudVars, queryVars, cartVars, discount, amountPaidInput,
                 isCheckoutOpen, isCompletingSale, checkout, currentSale, lastConfirm>>

(* handleViewInvoice(sale), from the history screen *)
ViewInvoice(sale) ==
  /\ currentScreen = "history"
  /\ currentSale' = <<sale>>
  /\ currentScreen' = "receipt"
  /\ UNCHANGED <<now, triggered, openVars, printVars, salesVars, salesHist, productVars, lastReplace, pullVars,
                 pushVars, cloudVars, queryVars, cartVars, discount, amountPaidInput,
                 isCheckoutOpen, isCompletingSale, checkout, lastConfirm>>

(* handleReprintInvoice falls through to the receipt screen whatever the   *)
(* call threw *)
ReprintFallsBack_OnlyOnFalse(result) == result = "false"

(* handleReprintInvoice goes on to setCurrentSale and setCurrentScreen:    *)
(* the print call returned a falsy value or threw                          *)
ReprintFallsBack(result) == result # "true"

(* handleReprintInvoice(sale), from the history screen, up to its await;   *)
(* without window.electronAPI.printReceipt it runs to its end              *)
ReprintInvoice(sale, hasPrintApi) ==
  /\ currentScreen = "history"
  /\ reprint = << >>
  /\ IF hasPrintApi
     THEN /\ reprint' = <<[sale |-> sale]>>
          /\ lastReprint' = << >>
          /\ UNCHANGED <<currentSale, currentScreen>>
     ELSE /\ currentSale' = <<sale>>
          /\ currentScreen' = "receipt"
          /\ lastReprint' = <<[sale |-> sale, result |-> "no api", ended |-> "returned",
                               screenBefore |-> currentScreen, saleBefore |-> currentSale,
                               screenAfter |-> currentScreen', saleAfter |-> currentSale']>>
          /\ UNCHANGED reprint
  /\ UNCHANGED <<now, triggered, openVars, salesVars, salesHist, productVars, lastReplace, pullVars, pushVars,
                 cloudVars, queryVars, cartVars, discount, amountPaidInput, isCheckoutOpen,
                 isCompletingSale, checkout, lastConfirm, lastReceipt, lastLabels, printJob>>

(* handleReprintInvoice after its await: the promise of the print call has *)
(* settled                                                                 *)
ReprintSettles ==
  /\ reprint # << >>
  /\ printJob # << >>
  /\ printJob[1].promise # "pending"
  /\ IF ReprintFallsBack(printJob[1].promise)
     THEN /\ currentSale' = <<reprint[1].sale>>
          /\ currentScreen' = "receipt"
     ELSE UNCHANGED <<currentSale, currentScreen>>
  /\ lastReprint' = <<[sale |-> reprint[1].sale, result |-> printJob[1].promise,
                       ended |-> "returned",
                       screenBefore |-> currentScreen, saleBefore |-> currentSale,
                       screenAfter |-> currentScreen', saleAfter |-> currentSale']>>
  /\ reprint' = << >>
  /\ printJob' = << >>
  /\ UNCHANGED <<now, triggered, openVars, salesVars, salesHist, productVars, lastReplace, pullVars, pushVars,
                 cloudVars, queryVars, cartVars, discount, amountPaidInput, isCheckoutOpen,
                 isCompletingSale, checkout, lastConfirm, lastReceipt, lastLabels>>

(* ---------------------------------------------------------------------- *)
(* Opening the store: getDatabase and ensureTables of the sales store      *)
(* (the products store has the same getDatabase; its ensureTables only     *)
(* creates what is missing).  A database is seen here by its schema and    *)
(* by the ids of its rows.                                                 *)
(* ---------------------------------------------------------------------- *)
SalesColumns ==
  <<"id", "receiptNumber", "userId", "subtotal", "discount", "totalAmount", "paymentMethod",
    "amountPaid", "changeGiven", "customerName", "date", "time", "synced", "createdAt">>

(* new SQLModule.Database() *)
EmptyDatabase == [sales |-> << >>, quantityType |-> "none", saleRows |-> << >>, itemRows |-> << >>]

HasColumn(names, name) == \E k \in 1..Len(names) : names[k] = name

(* if (!salesColumns.some(col => col.name === name)) ALTER TABLE sales ADD COLUMN name *)
AddColumnIfMissing(names, name) == IF HasColumn(names, name) THEN names ELSE Append(names, name)

(* ensureTables(db): the tables are created if they do not exist, a        *)
(* sale_items table whose quantity is INTEGER is rebuilt with REAL and its *)
(* rows copied, and the two payment columns are added if missing           *)
ensureTables(base) ==
  LET created == [base EXCEPT !.sales = IF base.sales = << >> THEN SalesColumns ELSE @,
                              !.quantityType = IF @ = "none" THEN "REAL" ELSE @]
      rebuilt == [created EXCEPT !.quantityType = IF @ = "INTEGER" THEN "REAL" ELSE @]
  IN [rebuilt EXCEPT !.sales =
        AddColumnIfMissing(AddColumnIfMissing(@, "amountPaid"), "changeGiven")]

(* getDatabase starts an initialization for every call *)
StartsInit_Always(promise) == TRUE

(* if (!dbPromise) *)
StartsInit(promise) == promise = "null"

(* the getDatabase calls the model lets a session make *)
MaxCalls == 3

(* getDatabase(): the first call starts initSqlJs and keeps its promise,   *)
(* every call returns the promise kept                                     *)
GetDatabase ==
  /\ Len(calls) < MaxCalls
  /\ calls' = Append(calls, [healthy |-> wasm # "missing"])
  /\ IF StartsInit(dbPromise)
     THEN dbPromise' = "pending" /\ inits' = inits + 1
     ELSE UNCHANGED <<dbPromise, inits>>
  /\ UNCHANGED <<now, triggered, printVars, salesVars, salesHist, productVars, lastReplace, pullVars,
                 pushVars, cloudVars, queryVars, cartVars, checkoutVars, dbInstance, stored, wasm, opened,
                 firstDb, lastOpen>>

(* initSqlJs settles and, if it has loaded the module, the callback runs:  *)
(* the snapshot is loaded if there is one, ensureTables is run, and a      *)
(* database made from nothing is persisted                                 *)
InitSettles ==
  /\ inits > 0
  /\ inits' = inits - 1
  /\ IF wasm = "missing"
     THEN /\ dbPromise' = "rejected"
          /\ UNCHANGED <<dbInstance, stored, opened, firstDb>>
     ELSE LET built == ensureTables(IF stored # << >> THEN stored[1] ELSE EmptyDatabase)
          IN /\ dbPromise' = "fulfilled"
             /\ dbInstance' = <<built>>
             /\ stored' = IF stored = << >> THEN <<built>> ELSE stored
             /\ opened' = [databases |-> opened.databases + 1,
                            loads |-> opened.loads + (IF stored # << >> THEN 1 ELSE 0)]
             /\ firstDb' = IF firstDb = << >> THEN <<built>> ELSE firstDb
  /\ UNCHANGED <<now, triggered, printVars, salesVars, salesHist, productVars, lastReplace, pullVars,
                 pushVars, cloudVars, queryVars, cartVars, checkoutVars, wasm, calls, lastOpen>>

(* the await of the oldest call ends with what the promise has settled to *)
CallSettles ==
  /\ calls # << >>
  /\ dbPromise \in {"fulfilled", "rejected"}
  /\ inits = 0
  /\ calls' = Tail(calls)
  /\ lastOpen' = <<[healthy |-> Head(calls).healthy, result |-> dbPromise, database |-> dbInstance]>>
  /\ UNCHANGED <<now, triggered, printVars, salesVars, salesHist, productVars, lastReplace, pullVars,
                 pushVars, cloudVars, queryVars, cartVars, checkoutVars, dbPromise, inits, dbInstance,
                 stored, wasm, opened, firstDb>>

(* sql-wasm.wasm cannot be loaded, from before the first call on *)
WasmGoesMissing ==
  /\ wasm = "ok"
  /\ dbPromise = "null"
  /\ wasm' = "missing"
  /\ UNCHANGED <<now, triggered, printVars, salesVars, salesHist, productVars, lastReplace, pullVars,
                 pushVars, cloudVars, queryVars, cartVars, checkoutVars, dbPromise, inits, dbInstance,
                 stored, calls, opened, firstDb, lastOpen>>

(* the file can be loaded again, for good *)
WasmRestored ==
  /\ wasm = "missing"
  /\ wasm' = "restored"
  /\ UNCHANGED <<now, triggered, printVars, salesVars, salesHist, productVars, lastReplace, pullVars,
                 pushVars, cloudVars, queryVars, cartVars, checkoutVars, dbPromise, inits, dbInstance,
                 stored, calls, opened, firstDb, lastOpen>>

(* an earlier version of the program has left its snapshot *)
FindSnapshot(snapshot) ==
  /\ dbPromise = "null"
  /\ stored = << >>
  /\ firstDb = << >>
  /\ stored' = <<snapshot>>
  /\ UNCHANGED <<now, triggered, printVars, salesVars, salesHist, productVars, lastReplace, pullVars,
                 pushVars, cloudVars, queryVars, cartVars, checkoutVars, dbPromise, inits, dbInstance,
                 wasm, calls, opened, firstDb, lastOpen>>

(* the window is loaded again: the module starts afresh, localStorage stays *)
Reload ==
  /\ dbPromise # "null"
  /\ dbPromise' = "null"
  /\ inits' = 0
  /\ dbInstance' = << >>
  /\ calls' = << >>
  /\ opened' = [databases |-> 0, loads |-> 0]
  /\ lastOpen' = << >>
  /\ UNCHANGED <<now, triggered, printVars, salesVars, salesHist, productVars, lastReplace, pullVars,
                 pushVars, cloudVars, queryVars, cartVars, checkoutVars, stored, wasm, firstDb>>

(* ---------------------------------------------------------------------- *)
(* Manual sync: syncCloud                                                  *)
(* ---------------------------------------------------------------------- *)

IdleCloud == [pc |-> "idle", errors |-> << >>]

NoOutcome == [status |-> "none", messages |-> << >>]

(* the message of the error a failed pull rejects with *)
PullMessage(status) ==
  IF status = "rejected" THEN "Failed to sync products (status)" ELSE "sql.js bind error"

PushMessage == "Failed to sync sales."

(* the reading of the pending sales fails: syncPendingSales rejects *)
PushThrow(q) ==
  /\ push[q].pc = "read"
  /\ push' = [push EXCEPT ![q].pc = "threw"]
  /\ UNCHANGED <<now, triggered, openVars, printVars, cloudVars, queryVars, cartVars, checkoutVars, salesVars, salesHist, productVars, lastReplace, pullVars,
                 remote, isSyncingCloud, pushResult, attempted, pendingAtStart, storedAtStart>>

(* syncCloud up to await syncProductsFromApi({ force: true }): it throws    *)
(* when the device is offline, else raises the syncing flag and starts the *)
(* forced pull.                                                            *)
CloudStart(pageSize) ==
  /\ cloud.pc = "idle" /\ pull[1].pc = "idle" /\ push[1].pc = "idle"
  /\ IF ~online
     THEN /\ cloudResult' = [status |-> "offline", messages |-> <<"Device is offline.">>]
          /\ UNCHANGED <<cloud, isSyncingCloud, productVars, pullVars>>
     ELSE /\ BeginPull(1, TRUE, pageSize)
          /\ cloud' = [pc |-> "pull", errors |-> << >>]
          /\ cloudResult' = NoOutcome
          /\ isSyncingCloud' = TRUE
  /\ UNCHANGED <<now, triggered, openVars, printVars, queryVars, cartVars, checkoutVars, salesVars, salesHist, lastReplace, remote, push, pushResult,
                 attempted, pendingAtStart, storedAtStart>>

(* syncCloud with a pull failure thrown on instead of collected *)
CloudAfterPull_StopOnPullFailure ==
  /\ cloud.pc = "pull" /\ pull[1].pc = "idle"
  /\ IF pullResult[1].status \in {"rejected", "store-error"}
     THEN /\ cloud' = [pc |-> "idle", errors |-> <<PullMessage(pullResult[1].status)>>]
          /\ cloudResult' = [status |-> "error", messages |-> cloud'.errors]
          /\ isSyncingCloud' = FALSE
          /\ UNCHANGED <<push, pushResult, attempted, pendingAtStart, storedAtStart>>
     ELSE /\ cloud' = [cloud EXCEPT !.pc = "push"]
          /\ BeginPush(1)
          /\ UNCHANGED <<cloudResult, isSyncingCloud>>
  /\ UNCHANGED <<now, triggered, openVars, printVars, queryVars, cartVars, checkoutVars, salesVars, salesHist, productVars, lastReplace, pullVars, remote>>

(* syncCloud once the pull has settled: a rejection is caught and its       *)
(* message pushed onto errors; then await syncPendingSales().              *)
CloudAfterPull ==
  /\ cloud.pc = "pull" /\ pull[1].pc = "idle"
  /\ cloud' = [pc |-> "push",
               errors |-> IF pullResult[1].status \in {"rejected", "store-error"}
                          THEN Append(cloud.errors, PullMessage(pullResult[1].status))
                          ELSE cloud.errors]
  /\ BeginPush(1)
  /\ UNCHANGED <<now, triggered, openVars, printVars, queryVars, cartVars, checkoutVars, salesVars, salesHist, productVars, lastReplace, pullVars,
                 remote, isSyncingCloud, cloudResult>>

(* syncCloud once the push has settled: a rejection is caught and its       *)
(* message pushed onto errors; finally the flag is lowered; then one error *)
(* with errors.join(' ') is thrown unless errors is empty.                 *)
CloudAfterPush ==
  /\ cloud.pc = "push" /\ push[1].pc \in {"done", "threw"}
  /\ cloud' = [pc |-> "idle",
               errors |-> IF push[1].pc = "threw" THEN Append(cloud.errors, PushMessage)
                          ELSE cloud.errors]
  /\ cloudResult' = IF cloud'.errors # << >>
                    THEN [status |-> "error", messages |-> cloud'.errors]
                    ELSE [status |-> "ok", messages |-> << >>]
  /\ pushResult' = [pushResult EXCEPT ![1] =
       [status |-> push[1].pc, synced |-> push[1].synced, failed |-> push[1].failed]]
  /\ push' = [push EXCEPT ![1].pc = "idle"]
  /\ isSyncingCloud' = FALSE
  /\ UNCHANGED <<now, triggered, openVars, printVars, queryVars, cartVars, checkoutVars, salesVars, salesHist, productVars, lastReplace, pullVars,
                 remote, attempted, pendingAtStart, storedAtStart>>

Init ==
  /\ now = 0
  /\ triggered = << >>
  /\ salesDb = EmptySalesDb
  /\ salesSnap = persistDatabase(EmptySalesDb)
  /\ lastSave = << >>
  /\ committed = EmptySalesDb
  /\ saved = << >>
  /\ productsDb = EmptyProductsDb
  /\ productsSnap = persistDatabase(EmptyProductsDb)
  /\ lastReplace = << >>
  /\ online = TRUE
  /\ lastSync = NoTimestamp
  /\ events = << >>
  /\ pull = [p \in OverlapIds |-> IdlePull]
  /\ lastPage = [p \in OverlapIds |-> << >>]
  /\ pullResult = [p \in OverlapIds |-> NoResult]
  /\ pullPre = [p \in OverlapIds |-> PullContext]
  /\ replaces = [p \in OverlapIds |-> 0]
  /\ lastWriter = 0
  /\ pullsStarted = 0
  /\ pullTrace = [latest |-> 0, behind |-> [p \in OverlapIds |-> FALSE], quietAt |-> NoTimestamp]
  /\ remote = {}
  /\ isSyncingCloud = FALSE
  /\ push = [q \in PushIds |-> IdlePush]
  /\ pushResult = [q \in PushIds |-> NoSummary]
  /\ attempted = [q \in PushIds |-> << >>]
  /\ pendingAtStart = [q \in PushIds |-> {}]
  /\ storedAtStart = [q \in PushIds |-> {}]
  /\ cloud = IdleCloud
  /\ cloudResult = NoOutcome
  /\ lastSearch = << >>
  /\ lastFind = << >>
  /\ cart = << >>
  /\ productIndex = [id \in CartIds |-> << >>]
  /\ lastStep = << >>
  /\ discount = 0
  /\ amountPaidInput = EmptyInput
  /\ isCheckoutOpen = FALSE
  /\ isCompletingSale = FALSE
  /\ checkout = << >>
  /\ currentSale = << >>
  /\ currentScreen = "sales"
  /\ lastConfirm = << >>
  /\ lastReceipt = << >>
  /\ lastLabels = << >>
  /\ printJob = << >>
  /\ reprint = << >>
  /\ lastReprint = << >>
  /\ dbPromise = "null"
  /\ inits = 0
  /\ dbInstance = << >>
  /\ stored = << >>
  /\ wasm = "ok"
  /\ calls = << >>
  /\ opened = [databases |-> 0, loads |-> 0]
  /\ firstDb = << >>
  /\ lastOpen = << >>

(* ---------------------------------------------------------------------- *)
(* The sales store under arbitrary calls of its exported operations,       *)
(* with the call that has just settled recorded in lastSave.               *)
(* ---------------------------------------------------------------------- *)
NextSales ==
  \/ \E sale \in SaleInputs :
       /\ SaveSale(sale)
       /\ lastSave' = <<[sale |-> sale, pre |-> salesDb, at |-> now,
                         threw |-> saveSaleOffline(salesDb, salesSnap, sale, now).threw]>>
       /\ UNCHANGED <<now, triggered, openVars, printVars, cloudVars, queryVars, cartVars, checkoutVars, committed, saved, productVars, lastReplace, pullVars, pushVars>>
  \/ \E id \in SaleIds :
       /\ markSaleSynced(id)
       /\ lastSave' = << >>
       /\ UNCHANGED <<now, triggered, openVars, printVars, cloudVars, queryVars, cartVars, checkoutVars, committed, saved, productVars, lastReplace, pullVars, pushVars>>
  \/ \E id \in SaleIds :
       /\ deleteSale(id)
       /\ lastSave' = << >>
       /\ UNCHANGED <<now, triggered, openVars, printVars, cloudVars, queryVars, cartVars, checkoutVars, committed, saved, productVars, lastReplace, pullVars, pushVars>>

SpecSales == Init /\ [][NextSales]_vars

(* ---------------------------------------------------------------------- *)
(* The same store, with the database that the successful calls alone       *)
(* would have built recorded in committed.                                 *)
(* ---------------------------------------------------------------------- *)
NextDurable ==
  \/ \E sale \in SaleInputs :
       /\ SaveSale(sale)
       /\ committed' = IF saveSaleOffline(salesDb, salesSnap, sale, now).threw
                       THEN committed
                       ELSE saveSaleOffline(committed, committed, sale, now).db
       /\ UNCHANGED <<now, triggered, openVars, printVars, cloudVars, queryVars, cartVars, checkoutVars, lastSave, saved, productVars, lastReplace, pullVars, pushVars>>
  \/ \E id \in SaleIds :
       /\ markSaleSynced(id)
       /\ committed' = UpdateSynced(committed, id)
       /\ UNCHANGED <<now, triggered, openVars, printVars, cloudVars, queryVars, cartVars, checkoutVars, lastSave, saved, productVars, lastReplace, pullVars, pushVars>>
  \/ \E id \in SaleIds :
       /\ deleteSale(id)
       /\ committed' = DeleteSaleRows(committed, id)
       /\ UNCHANGED <<now, triggered, openVars, printVars, cloudVars, queryVars, cartVars, checkoutVars, lastSave, saved, productVars, lastReplace, pullVars, pushVars>>

SpecDurable == Init /\ [][NextDurable]_vars

(* ---------------------------------------------------------------------- *)
(* The products store under arbitrary calls of its exported operations,    *)
(* with the replace call that has just settled recorded in lastReplace.    *)
(* ---------------------------------------------------------------------- *)
NextProducts ==
  \/ \E products \in ProductLists :
       /\ ReplaceAllProducts(products)
       /\ lastReplace' = <<[products |-> products, pre |-> productsDb, preSnap |-> productsSnap,
                            threw |-> replaceAllProductsOffline(productsDb, productsSnap, products).threw]>>
       /\ UNCHANGED <<now, triggered, openVars, printVars, cloudVars, queryVars, cartVars, checkoutVars, salesVars, salesHist, pushVars, pullVars>>
  \/ \E products \in ProductLists :
       /\ SaveProducts(products)
       /\ lastReplace' = << >>
       /\ UNCHANGED <<now, triggered, openVars, printVars, cloudVars, queryVars, cartVars, checkoutVars, salesVars, salesHist, pushVars, pullVars>>

SpecProducts == Init /\ [][NextProducts]_vars

(* ---------------------------------------------------------------------- *)
(* Remote catalog: the JSON the products endpoint may answer               *)
(* ---------------------------------------------------------------------- *)

RawRecord(id, altId, name, sellingPrice, price) ==
  [id |-> id, _id |-> altId, name |-> name, sellingPrice |-> sellingPrice, price |-> price,
   stockQuantity |-> "1", sku |-> Undefined]

RawA == RawRecord("p1", Undefined, "A", "2", Undefined)
RawB == RawRecord(Undefined, "p2", "B", Undefined, "1")
RawNoName == RawRecord("p3", Undefined, Undefined, "2", Undefined)
RawInfinitePrice == RawRecord("p4", Undefined, "C", "1e999", Undefined)
RawNaNPrice == RawRecord("p5", Undefined, "A", "abc", Undefined)
RawEmptyName == RawRecord("p6", Undefined, "", "2", Undefined)
RawNoId == RawRecord(Undefined, Undefined, "A", "2", Undefined)
RawObjectName == RawRecord("p7", Undefined, ObjectValue, "2", Undefined)

ListsOver(pool) == UNION { [1..n -> pool] : n \in 0..MaxList }

Failure == [ok |-> FALSE, payload |-> [shape |-> "none", list |-> << >>,
                                        totalPages |-> NaN, total |-> NaN]]

(* a bare JSON array carries no metadata *)
ArrayResponses(lists) ==
  { [ok |-> TRUE, payload |-> [shape |-> "array", list |-> l, totalPages |-> NaN, total |-> NaN]] :
      l \in lists }

ObjectResponses(lists, shapes, metadata) ==
  { [ok |-> TRUE, payload |-> [shape |-> sh, list |-> l, totalPages |-> md[1], total |-> md[2]]] :
      sh \in shapes, l \in lists, md \in metadata }

(* the server answers a page with at most pageSize records *)
PageLengths == UNION { 0..size : size \in PageSizes }

(* pages of a catalog that alternates two products, and pages of one product *)
CatalogPages ==
  { [k \in 1..n |-> IF k % 2 = 1 THEN RawA ELSE RawB] : n \in PageLengths }
    \cup { [k \in 1..n |-> RawB] : n \in PageLengths }

(* <<totalPages, total>>: absent (NaN), unusable, and naming this or a later page *)
PagingMetadata ==
  {<<NaN, NaN>>, <<0, NaN>>, <<1, NaN>>, <<2, NaN>>, <<3, NaN>>,
   <<NaN, 0>>, <<NaN, 3>>, <<NaN, 5>>, <<0, 3>>, <<1, 5>>}

(* answers that differ in their pagination metadata *)
PagingResponses ==
  {Failure} \cup ArrayResponses(CatalogPages)
            \cup ObjectResponses(CatalogPages, {"data", "products"}, PagingMetadata)
            \cup ObjectResponses({<<RawA>>}, {"none"}, {<<NaN, NaN>>, <<2, NaN>>})

(* one-page answers that differ in their records *)
RecordResponses ==
  {Failure} \cup ArrayResponses(ListsOver({RawA, RawB, RawNoName, RawInfinitePrice, RawNaNPrice,
                                           RawEmptyName, RawNoId, RawObjectName}))

(* one answer, or a failure *)
PlainResponses == {Failure} \cup ArrayResponses(ListsOver({RawA}))

PullSteps(p) == PullReplace(p) \/ PullFinish(p)

(* pulls against a server that varies the pagination metadata *)
NextPaging ==
  \E p \in PullIds :
    \/ \E force \in BOOLEAN, pageSize \in PageSizes : PullStart(p, force, pageSize)
    \/ \E r \in PagingResponses : PullPage(p, r)
    \/ PullSteps(p)

SpecPaging == Init /\ [][NextPaging]_vars

(* pulls against a server that varies the records *)
NextRecords ==
  \E p \in PullIds :
    \/ \E force \in BOOLEAN, pageSize \in PageSizes : PullStart(p, force, pageSize)
    \/ \E r \in RecordResponses : PullPage(p, r)
    \/ PullSteps(p)

SpecRecords == Init /\ [][NextRecords]_vars

(* pulls while time passes and the connection comes and goes *)
NextDebounce ==
  \/ \E p \in PullIds :
       \/ \E force \in BOOLEAN, pageSize \in PageSizes : PullStart(p, force, pageSize)
       \/ \E r \in PlainResponses : PullPage(p, r)
       \/ PullSteps(p)
  \/ ToggleOnline
  \/ Tick

SpecDebounce == Init /\ [][NextDebounce]_vars

(* sales completed at the till and pushed by overlapping syncSales calls *)
PushOutcomes == {"ok", "status", "network", "lost"}

TillSales == { [id |-> i, items |-> <<it>>, synced |-> FALSE] :
                 i \in SaleIds, it \in {x \in ItemPool : x.name # Undefined} }

NextPush ==
  \/ \E sale \in TillSales : CompleteSale(sale)
  \/ \E q \in PushIds :
       \/ SyncSalesStart(q)
       \/ PushRead(q)
       \/ \E outcome \in PushOutcomes : PushSubmit(q, outcome)
       \/ PushMark(q)
       \/ SyncSalesFinish(q)

SpecPush == Init /\ [][NextPush]_vars

(* The same, where push triggers keep occurring, every step of a running   *)
(* push is eventually taken (the event loop resumes each continuation),    *)
(* and the remote eventually accepts the submission of each sale.          *)
PushFairness ==
  \A q \in PushIds :
    /\ WF_vars(SyncSalesStart(q))
    /\ WF_vars(PushRead(q))
    /\ WF_vars(PushMark(q))
    /\ WF_vars(SyncSalesFinish(q))
    /\ \A id \in SaleIds :
         SF_vars(PushSubmit(q, "ok") /\ push[q].queue[push[q].pos].id = id)

SpecLive == Init /\ [][NextPush]_vars /\ PushFairness

(* sales completed at the till while time passes, pushed by one syncSales  *)
(* call after the other                                                    *)
NextOrder ==
  \/ \E sale \in TillSales : CompleteSale(sale)
  \/ Tick
  \/ \E q \in {1} :
       \/ SyncSalesStart(q)
       \/ PushRead(q)
       \/ \E outcome \in PushOutcomes : PushSubmit(q, outcome)
       \/ PushMark(q)
       \/ SyncSalesFinish(q)

SpecOrder == Init /\ [][NextOrder]_vars

(* sales completed at the till and marked synced while time passes, with   *)
(* the completed saves recorded in saved                                   *)
ListedSales == { [id |-> i, items |-> l, synced |-> FALSE] :
                 i \in SaleIds, l \in {x \in ItemLists : \A k \in 1..Len(x) : x[k].name # Undefined} }

NextListing ==
  \/ \E sale \in ListedSales :
       /\ \A k \in 1..Len(salesDb.sales) : salesDb.sales[k].id # sale.id
       /\ SaveSale(sale)
       /\ saved' = Append(saved, sale)
       /\ UNCHANGED <<now, triggered, openVars, printVars, cloudVars, queryVars, cartVars, checkoutVars, lastSave, committed, productVars, lastReplace,
                      pullVars, pushVars>>
  \/ \E id \in SaleIds :
       /\ \E k \in 1..Len(salesDb.sales) : salesDb.sales[k].id = id /\ ~salesDb.sales[k].synced
       /\ markSaleSynced(id)
       /\ UNCHANGED <<now, triggered, openVars, printVars, cloudVars, queryVars, cartVars, checkoutVars, salesHist, productVars, lastReplace, pullVars,
                      pushVars>>
  \/ Tick

SpecListing == Init /\ [][NextListing]_vars

(* the cart worked on from the sales screen *)
StockLevels == {0, Half, ThreeQuarters, Whole, Whole * MaxUnits}

(* a product as the catalog queries return it: name and price go by the id *)
ShelfProduct(i, level) ==
  [id |-> i, name |-> IF i = "p1" THEN "A" ELSE "B",
   sellingPrice |-> IF i = "p1" THEN 2 ELSE 1, stockQuantity |-> level]

ShelfProducts == { ShelfProduct(i, level) : i \in CartIds, level \in StockLevels }

NextCart ==
  \/ \E product \in ShelfProducts : AddToCart(product)
  \/ \E id \in CartIds, delta \in {0 - 1, 1} : UpdateQuantity(id, delta)
  \/ \E id \in CartIds : RemoveFromCart(id)
  \/ \E product \in ShelfProducts : IndexProduct(product)
  \/ Remount

SpecCart == Init /\ [][NextCart]_vars

(* sales made at the till: the cart is filled, changed and checked out;     *)
(* between a confirmation and the store's answer the only thing tried is   *)
(* another confirmation                                                    *)
TillProducts == { ShelfProduct("p1", Half), ShelfProduct("p2", Whole + Whole) }

DiscountInputs == {NaN, 0 - Whole, Half, Whole + Whole + Whole}

AmountInputs ==
  {EmptyInput, OverflowInput} \cup { NumberInput(value) : value \in {Quarter, Whole, Whole + Whole} }

AtTill == currentScreen = "sales" /\ checkout = << >>

NextCheckout ==
  \/ \E product \in TillProducts : AtTill /\ AddToCart(product)
  \/ \E id \in CartIds, delta \in {0 - 1, 1} : AtTill /\ UpdateQuantity(id, delta)
  \/ \E id \in CartIds : AtTill /\ RemoveFromCart(id)
  \/ \E value \in DiscountInputs : AtTill /\ SetDiscount(value)
  \/ AtTill /\ OpenCheckout
  \/ AtTill /\ CloseCheckout
  \/ \E input \in AmountInputs : AtTill /\ TypeAmount(input)
  \/ ConfirmCheckout
  \/ StoreCheckedOutSale

SpecCheckout == Init /\ [][NextCheckout]_vars

(* receipts encoded for sales with and without the optional fields, with   *)
(* names and amounts that fit their columns and that do not                *)
MaxRows == 2

Milk == <<"M", "i", "l", "k">>

LongName == [k \in 1..30 |-> IF k % 2 = 1 THEN "a" ELSE "b"]

ReceiptItems ==
  { [name |-> Milk, price |-> 5 * Whole, quantity |-> 2 * Whole],
    [name |-> LongName, price |-> 1000 * Whole, quantity |-> Quarter],
    [name |-> << >>, price |-> NaN, quantity |-> 10 * Whole + Quarter],
    [name |-> <<"B">>, price |-> Whole, quantity |-> NaN] }

RECURSIVE ReceiptRows(_)
ReceiptRows(n) ==
  IF n = 0 THEN {<< >>}
  ELSE ReceiptRows(n - 1) \cup
       { Append(rows, item) : rows \in { r \in ReceiptRows(n - 1) : Len(r) = n - 1 },
                              item \in ReceiptItems }

RECURSIVE RowsTotal(_)
RowsTotal(rows) ==
  IF rows = << >> THEN 0
  ELSE (OrZero(Head(rows).price) * OrZero(Head(rows).quantity)) \div Whole + RowsTotal(Tail(rows))

ReceiptSales ==
  { [receiptNumber |-> number, date |-> date, time |-> time, paymentMethod |-> method,
     items |-> rows, subtotal |-> RowsTotal(rows), discount |-> off,
     totalAmount |-> RowsTotal(rows) - OrZero(off)] :
      number \in {<< >>, <<"R", "1">>},
      date \in {<< >>, <<"1", "/", "2">>},
      time \in {<< >>, <<"9", ":", "0">>},
      method \in {<< >>, <<"c", "a", "s", "h">>, <<"C", "A", "S", "H">>},
      rows \in ReceiptRows(MaxRows),
      off \in {NaN, 0, 3 * Whole} }

NextReceipt == \E sale \in ReceiptSales : EncodeReceipt(sale)

SpecReceipt == Init /\ [][NextReceipt]_vars

(* label jobs as parseArgs builds them: a whole number of labels, a barcode *)
(* value or none, paper of 58 or 80 millimetres                            *)
MaxQty == 7

LabelJobs ==
  { [item |-> item, qty |-> qty, barcodeValue |-> value, paper |-> paper] :
      item \in {Milk, <<"I", "t", "e", "m">>},
      qty \in 1..MaxQty,
      value \in {<< >>, <<"1", "2", "3", "4", "5", "6", "7", "8", "9", "0", "1", "2">>},
      paper \in {58, 80} }

NextLabels == \E job \in LabelJobs : EncodeLabels(job)

SpecLabels == Init /\ [][NextLabels]_vars

(* the print-receipt handler called once, with a payload that encodes or   *)
(* with one whose items hold a null, on a printer that throws, fails or    *)
(* prints                                                                  *)
MalformedSales ==
  { [receiptNumber |-> <<"R", "1">>, date |-> << >>, time |-> << >>, paymentMethod |-> << >>,
     items |-> rows, subtotal |-> 0, discount |-> NaN, totalAmount |-> 0] :
      rows \in {<<NullItem>>,
                <<[name |-> Milk, price |-> 5 * Whole, quantity |-> 2 * Whole], NullItem>>} }

PrintPayloads == { sale \in ReceiptSales : Len(sale.items) <= 1 } \cup MalformedSales

NextPrint ==
  \/ \E sale \in PrintPayloads, outcome \in PrinterOutcomes : PrintReceipt(sale, outcome)
  \/ PrintSucceeds
  \/ PrintFails

SpecPrint == Init /\ [][NextPrint]_vars

(* the printer answers every job it has accepted *)
SpecPrintLive == SpecPrint /\ WF_vars(PrintSucceeds \/ PrintFails)

(* the history screen: invoices are viewed and reprinted while the user    *)
(* moves between the screens                                               *)
Screens == {"sales", "receipt", "history", "sync", "settings"}

HistorySales ==
  { [receiptNumber |-> number, date |-> <<"1", "/", "2">>, time |-> <<"9", ":", "0">>,
     paymentMethod |-> <<"C", "A", "S", "H">>,
     items |-> <<[name |-> Milk, price |-> 5 * Whole, quantity |-> 2 * Whole]>>,
     subtotal |-> 10 * Whole, discount |-> 0, totalAmount |-> 10 * Whole] :
      number \in {<<"R", "1">>, <<"R", "2">>} }

NextReprint ==
  \/ \E screen \in Screens \ {"receipt"} : Navigate(screen)
  \/ \E sale \in HistorySales : ViewInvoice(sale)
  \/ BackToPOS
  \/ \E sale \in HistorySales, hasPrintApi \in BOOLEAN : ReprintInvoice(sale, hasPrintApi)
  \/ \E outcome \in PrinterOutcomes : reprint # << >> /\ PrintReceipt(reprint[1].sale, outcome)
  \/ PrintCallThrows
  \/ PrintSucceeds
  \/ PrintFails
  \/ ReprintSettles

SpecReprint == Init /\ [][NextReprint]_vars

(* sessions that open the store, on no snapshot or on one that an earlier   *)
(* version has left, with the wasm file there or missing for a while       *)
OldSalesColumns ==
  <<"id", "receiptNumber", "userId", "subtotal", "discount", "totalAmount", "paymentMethod",
    "customerName", "date", "time", "synced", "createdAt">>

Snapshots ==
  { [sales |-> names, quantityType |-> type, saleRows |-> rows, itemRows |-> rows] :
      names \in {OldSalesColumns, Append(OldSalesColumns, "amountPaid"), SalesColumns,
                 Append(Append(OldSalesColumns, "amountPaid"), "changeGiven")},
      type \in {"INTEGER", "REAL"},
      rows \in {<< >>, <<"s1">>, <<"s1", "s2">>} }

NextOpen ==
  \/ GetDatabase
  \/ InitSettles
  \/ CallSettles
  \/ WasmGoesMissing
  \/ WasmRestored
  \/ \E snapshot \in Snapshots : FindSnapshot(snapshot)
  \/ Reload

SpecOpen == Init /\ [][NextOpen]_vars

(* both stores in one page: sales are saved, marked and deleted while the   *)
(* catalog is written by hand and by forced pulls                          *)
StoredSales == { sale \in SaleInputs : sale.id = "s1" /\ Len(sale.items) = 1 }

StoredLists == { products \in ProductLists : Len(products) = 1 /\ products[1].id # "p2" }

SalesOperation ==
  \/ \E sale \in StoredSales :
       /\ SaveSale(sale)
       /\ UNCHANGED <<now, triggered, openVars, printVars, cloudVars, queryVars, cartVars, checkoutVars, salesHist, productVars, lastReplace, pullVars, pushVars>>
  \/ \E id \in {"s1"} :
       /\ markSaleSynced(id)
       /\ UNCHANGED <<now, triggered, openVars, printVars, cloudVars, queryVars, cartVars, checkoutVars, salesHist, productVars, lastReplace, pullVars, pushVars>>
  \/ \E id \in {"s1"} :
       /\ deleteSale(id)
       /\ UNCHANGED <<now, triggered, openVars, printVars, cloudVars, queryVars, cartVars, checkoutVars, salesHist, productVars, lastReplace, pullVars, pushVars>>

ProductsOperation ==
  \/ \E products \in StoredLists :
       /\ ReplaceAllProducts(products)
       /\ UNCHANGED <<now, triggered, openVars, printVars, cloudVars, queryVars, cartVars, checkoutVars, salesVars, salesHist, lastReplace, pushVars, pullVars>>
  \/ \E products \in StoredLists :
       /\ SaveProducts(products)
       /\ UNCHANGED <<now, triggered, openVars, printVars, cloudVars, queryVars, cartVars, checkoutVars, salesVars, salesHist, lastReplace, pushVars, pullVars>>
  \/ \E p \in PullIds :
       \/ \E pageSize \in PageSizes : PullStart(p, TRUE, pageSize)
       \/ \E r \in PlainResponses : PullPage(p, r)
       \/ PullSteps(p)

NextStores == SalesOperation \/ ProductsOperation

SpecStores == Init /\ [][NextStores]_vars

(* a sale is checked out while pushes run: the store accepts or rejects    *)
(* the save, and a completed sale calls syncSales() while online           *)
NextComplete ==
  \/ AtTill /\ AddToCart(ShelfProduct("p2", Whole + Whole))
  \/ AtTill /\ OpenCheckout
  \/ AtTill /\ TypeAmount(NumberInput(Whole + Whole))
  \/ ConfirmCheckout
  \/ StoreCheckedOutSale
  \/ \E cause \in SaveFailures : CompleteSaleRejects(cause)
  \/ BackToPOS
  \/ ToggleOnline
  \/ \E q \in PushIds :
       \/ SyncCompletedSale(q)
       \/ SyncSalesStart(q)
       \/ PushRead(q)
       \/ \E outcome \in {"ok", "status"} : PushSubmit(q, outcome)
       \/ PushMark(q)
       \/ SyncSalesFinish(q)

SpecComplete == Init /\ [][NextComplete]_vars

(* non-forced pulls started by the online event and by the timer, which may *)
(* be in flight together, while time passes                                *)
OverlapResponses == {Failure} \cup ArrayResponses({<<RawA>>, <<RawA, RawB>>})

NextOverlap ==
  \/ \E p \in OverlapIds :
       \/ PullStart(p, FALSE, 2)
       \/ \E r \in OverlapResponses : PullPage(p, r)
       \/ PullSteps(p)
  \/ Tick

SpecOverlap == Init /\ [][NextOverlap]_vars

(* a manual sync and a syncSales call that may be in flight together       *)
BusyResponses == {Failure} \cup ArrayResponses({<<RawA>>})

NextBusy ==
  \/ \E sale \in { s \in TillSales : s.id = "s1" } : CompleteSale(sale)
  \/ CloudStart(2)
  \/ \E r \in BusyResponses : PullPage(1, r)
  \/ PullSteps(1)
  \/ CloudAfterPull
  \/ CloudAfterPush
  \/ SyncSalesStart(2)
  \/ SyncSalesFinish(2)
  \/ \E q \in PushIds :
       \/ PushRead(q)
       \/ \E outcome \in {"ok", "network"} : PushSubmit(q, outcome)
       \/ PushMark(q)

SpecBusy == Init /\ [][NextBusy]_vars

(* a sale is checked out, and the confirm handler may run twice from one   *)
(* render before the store has answered                                    *)
NextDouble ==
  \/ AtTill /\ AddToCart(ShelfProduct("p2", Whole + Whole))
  \/ AtTill /\ OpenCheckout
  \/ AtTill /\ CloseCheckout
  \/ \E input \in {NumberInput(Quarter), NumberInput(Whole + Whole)} : AtTill /\ TypeAmount(input)
  \/ ConfirmCheckout
  \/ ConfirmCheckoutFromSameRender
  \/ StoreCheckedOutSale
  \/ BackToPOS

SpecDouble == Init /\ [][NextDouble]_vars

(* the cart worked on over an unchanged catalog, while the sales screen is *)
(* left and mounted again                                                  *)
NextShelf ==
  \/ \E product \in TillProducts : AddToCart(product)
  \/ \E id \in CartIds, delta \in {0 - 1, 1} : UpdateQuantity(id, delta)
  \/ \E id \in CartIds : RemoveFromCart(id)
  \/ \E product \in TillProducts : IndexProduct(product)
  \/ Remount

SpecShelf == Init /\ [][NextShelf]_vars

(* pulls against a server that answers every request with a full page, an  *)
(* empty page, a bare array or a failure; the answers that end a pull (a   *)
(* failure, a bare array, an empty list) keep coming, and every            *)
(* continuation of a running pull is resumed                               *)
EndingResponses ==
  {Failure} \cup ArrayResponses({<<RawA>>})
            \cup ObjectResponses({<< >>}, {"data"}, {<<NaN, NaN>>, <<3, NaN>>})

LiveResponses ==
  EndingResponses \cup ObjectResponses({<<RawA, RawB>>}, {"data"}, {<<NaN, NaN>>, <<3, NaN>>})

NextEnding ==
  \E p \in PullIds :
    \/ PullStart(p, TRUE, 2)
    \/ \E r \in LiveResponses : PullPage(p, r)
    \/ PullSteps(p)

PagingFairness ==
  \A p \in PullIds :
    /\ WF_vars(\E r \in LiveResponses : PullPage(p, r))
    /\ SF_vars(\E r \in EndingResponses : PullPage(p, r))
    /\ WF_vars(PullReplace(p))
    /\ WF_vars(PullFinish(p))

SpecPagingLive == Init /\ [][NextEnding]_vars /\ PagingFairness

(* queries over catalogs written by the two write operations *)
SearchPool ==
  { [id |-> "p1", sku |-> Undefined, name |-> "A", sellingPrice |-> 2, stockQuantity |-> 5],
    [id |-> "p2", sku |-> "K1", name |-> "B", sellingPrice |-> 1, stockQuantity |-> 0],
    [id |-> "p3", sku |-> "k1", name |-> "A", sellingPrice |-> 3, stockQuantity |-> 1] }

SearchBatches == UNION { [1..n -> SearchPool] : n \in 0..MaxBatch }

SearchPages == {0 - 1, 0, 1, 2, 3, 4}

SearchPageSizes == {0, 1, 2, 3}

QueryPool ==
  { << >>, <<" ">>, <<"a">>, <<" ", "B", " ">>, <<"K", "1">>, <<"1">>, <<"P">>, <<"x">>,
    <<"_">>, <<"%">> }

CodePool ==
  { << >>, <<" ">>, <<"K", "1">>, <<"k", "1", " ">>, <<"p", "1">>, <<"P", "1">>, <<"x">> }

NextSearch ==
  \/ \E products \in SearchBatches :
       /\ ReplaceAllProducts(products)
       /\ lastSearch' = << >> /\ lastFind' = << >>
       /\ UNCHANGED <<now, triggered, openVars, printVars, cartVars, checkoutVars, salesVars, salesHist, pushVars, cloudVars, lastReplace, pullVars>>
  \/ \E products \in SearchBatches :
       /\ SaveProducts(products)
       /\ lastSearch' = << >> /\ lastFind' = << >>
       /\ UNCHANGED <<now, triggered, openVars, printVars, cartVars, checkoutVars, salesVars, salesHist, pushVars, cloudVars, lastReplace, pullVars>>
  \/ \E page \in SearchPages, pageSize \in SearchPageSizes, search \in QueryPool :
       SearchProducts(page, pageSize, search)
  \/ \E code \in CodePool : FindProductByCode(code)

SpecSearch == Init /\ [][NextSearch]_vars

(* manual syncs while sales are completed and the connection comes and goes *)
NextCloud ==
  \/ \E sale \in TillSales : CompleteSale(sale)
  \/ ToggleOnline
  \/ \E pageSize \in PageSizes : CloudStart(pageSize)
  \/ \E r \in PlainResponses : PullPage(1, r)
  \/ PullSteps(1)
  \/ CloudAfterPull
  \/ PushRead(1)
  \/ PushThrow(1)
  \/ \E outcome \in PushOutcomes : PushSubmit(1, outcome)
  \/ PushMark(1)
  \/ CloudAfterPush

SpecCloud == Init /\ [][NextCloud]_vars

(* ---------------------------------------------------------------------- *)
(* Claims about the sales store                                            *)
(* ---------------------------------------------------------------------- *)

(* What one saveSaleOffline(sale) call is to leave when all of it took      *)
(* effect: the row of the sale and exactly the line items of the sale.     *)
SaleWritten(db, sale, t) ==
  [sales |-> Append(SelectSeq(db.sales, LAMBDA r : r.id # sale.id),
                    [id |-> sale.id, synced |-> sale.synced, createdAt |-> t,
                     totals |-> SaleTotals(sale)]),
   items |-> {it \in db.items : it.saleId # sale.id}
             \cup {SaleItemRow(sale, k) : k \in 1..Len(sale.items)}]

(* C1: a sale and its line items are written atomically by saveSaleOffline: *)
(* whenever the store can be read after a call has settled, also one that  *)
(* threw, either the whole call took effect (the sale row with all of its  *)
(* line items) or none of it did (the store is as it was before the call). *)
C1_SaveIsAtomic ==
  lastSave # << >> =>
    \/ salesDb = lastSave[1].pre
    \/ salesDb = SaleWritten(lastSave[1].pre, lastSave[1].sale, lastSave[1].at)

(* C2: the persisted sales snapshot always equals the result of the         *)
(* successfully completed store operations only: a saveSaleOffline call    *)
(* that failed contributes nothing to it, neither at once nor through a    *)
(* later successful markSaleSynced, deleteSale or saveSaleOffline.         *)
C2_SnapshotIsCommitted == salesSnap = committed

(* ---------------------------------------------------------------------- *)
(* Claims about the products store                                         *)
(* ---------------------------------------------------------------------- *)

(* C3: if replaceAllProductsOffline fails on a row insert after its         *)
(* delete-all, the catalog in memory and the persisted snapshot are        *)
(* exactly what they were before the call: no product is lost and none of  *)
(* the new batch has come in.                                              *)
C3_FailedReplaceKeepsCatalog ==
  (lastReplace # << >> /\ lastReplace[1].threw) =>
    /\ productsDb = lastReplace[1].pre
    /\ productsSnap = lastReplace[1].preSnap

(* a replace that failed on its second row, over a catalog that was not empty *)
C3_Witness ==
  /\ lastReplace # << >>
  /\ lastReplace[1].threw
  /\ DOMAIN lastReplace[1].pre # {}
  /\ Len(lastReplace[1].products) >= 2
  /\ ProductBinds(lastReplace[1].products[1])
  /\ lastReplace[1].products[1].id \notin DOMAIN lastReplace[1].pre

(* ---------------------------------------------------------------------- *)
(* Claims about the product pull                                           *)
(* ---------------------------------------------------------------------- *)

(* a syncProductsFromApi call has been made in slot p *)
Called(p) == pull[p].pc # "idle" \/ pullResult[p].status # "none"

(* nothing the pull could write differs from what it was when the call began *)
Untouched(p) ==
  /\ productsDb = pullPre[p].db
  /\ productsSnap = pullPre[p].snap
  /\ lastSync = pullPre[p].lastSync
  /\ Len(events) = pullPre[p].events

(* C4: if a page fetch returns a non-success status, on the first or on a   *)
(* later page, syncProductsFromApi rejects and the catalog, the products   *)
(* snapshot and the last-sync timestamp are as they were before the pull,  *)
(* no products-updated event was emitted and the records of the earlier    *)
(* pages are in no store.                                                  *)
C4_FailedFetchMutatesNothing ==
  \A p \in PullIds :
    pullResult[p].status = "rejected" => Untouched(p) /\ replaces[p] = 0

(* a pull rejected on its second page, holding a record the catalog lacks *)
C4_Witness ==
  \E p \in PullIds :
    /\ pullResult[p].status = "rejected"
    /\ pull[p].page = 2
    /\ \E k \in 1..Len(pull[p].all) : pull[p].all[k].id \notin DOMAIN productsDb
    /\ DOMAIN productsDb # {}

(* the table that the accumulated records make: one row per id, the row of  *)
(* the last record with that id                                            *)
CatalogOf(all) ==
  [i \in {all[k].id : k \in 1..Len(all)} |->
     ProductRow(all[CHOOSE k \in 1..Len(all) :
                      all[k].id = i /\ \A j \in (k + 1)..Len(all) : all[j].id # i])]

(* C5: after a pull that completes, the catalog is exactly the records      *)
(* accumulated over all fetched pages (what was there before and was not   *)
(* fetched is gone), written by one replaceAllProductsOffline call; the    *)
(* timestamp is recorded only after that replace has succeeded, and the    *)
(* products-updated event {lastSyncedAt, totalFetched} is emitted only     *)
(* after the timestamp is recorded.                                        *)
C5_PullReplacesThenStampsThenNotifies ==
  /\ lastSync # NoTimestamp => lastWriter # 0
  /\ \A k \in 1..Len(events) : events[k].stored = events[k].lastSyncedAt
  /\ \A p \in PullIds :
       /\ pull[p].pc \in {"fetch", "replace"} => Untouched(p) /\ replaces[p] = 0
       /\ pull[p].pc = "stamp" =>
            /\ productsDb = CatalogOf(pull[p].all)
            /\ productsSnap = productsDb
            /\ replaces[p] = 1
            /\ lastSync = pullPre[p].lastSync
            /\ Len(events) = pullPre[p].events
       /\ pullResult[p].status = "synced" =>
            /\ productsDb = CatalogOf(pull[p].all)
            /\ productsSnap = productsDb
            /\ replaces[p] = 1
            /\ lastSync = pullResult[p].lastSyncedAt
            /\ Len(events) = pullPre[p].events + 1
            /\ events[Len(events)].lastSyncedAt = pullResult[p].lastSyncedAt
            /\ events[Len(events)].totalFetched = Len(pull[p].all)
            /\ pullResult[p].totalFetched = Len(pull[p].all)

(* a completed two-page pull after which a product of the old catalog is gone *)
C5_Witness ==
  \E p \in PullIds :
    /\ pullResult[p].status = "synced"
    /\ pull[p].page = 2
    /\ Len(pull[p].all) >= 2
    /\ \E i \in DOMAIN pullPre[p].db : i \notin DOMAIN productsDb

(* the timestamp the call found was less than 5 minutes old *)
Fresh(p) ==
  pullPre[p].lastSync # NoTimestamp /\ pullPre[p].at - pullPre[p].lastSync < 5

(* the call returned at once: no fetch, nothing written, synced = false *)
Skipped(p) ==
  /\ pullResult[p].status = "skipped"
  /\ pull[p].pc = "idle"
  /\ ~pullResult[p].synced
  /\ lastPage[p] = << >>
  /\ Untouched(p)

(* C6 as stated: a non-forced call that finds a timestamp less than 5       *)
(* minutes old is skipped (no fetch, no mutation, timestamp unchanged,     *)
(* synced = false); a call with force = true, or one that finds no         *)
(* timestamp or one at least 5 minutes old, goes on to fetch.              *)
C6_DebounceAsStated ==
  \A p \in PullIds :
    Called(p) =>
      /\ (~pull[p].force /\ Fresh(p)) => Skipped(p)
      /\ (pull[p].force \/ ~Fresh(p)) => pullResult[p].status # "skipped"

(* C6 amended: the same, the second half for calls made while the device   *)
(* is online; a call made offline returns at once whatever its arguments.  *)
C6_DebounceWhenOnline ==
  \A p \in PullIds :
    Called(p) =>
      /\ (~pull[p].force /\ Fresh(p)) => Skipped(p)
      /\ (pullPre[p].online /\ (pull[p].force \/ ~Fresh(p))) => pullResult[p].status # "skipped"
      /\ ~pullPre[p].online => Skipped(p)

(* a non-forced call made online, 4 minutes after the last pull, was skipped *)
C6_Witness ==
  \E p \in PullIds :
    /\ Called(p)
    /\ ~pull[p].force
    /\ pullPre[p].online
    /\ pullPre[p].lastSync # NoTimestamp
    /\ pullPre[p].at - pullPre[p].lastSync = 4
    /\ Skipped(p)

(* the pull has taken its last page: it fetches no further one *)
StoppedPaging(p) == pull[p].pc # "fetch"

(* C7 as stated: the pull stops paginating as soon as the page just fetched *)
(* has reached the totalPages given or derived from total, or holds fewer  *)
(* records than pageSize, the latter also when the metadata names more     *)
(* pages.                                                                  *)
C7_StopsAsStated ==
  \A p \in PullIds :
    lastPage[p] # << >> =>
      LET f == lastPage[p][1]
      IN ((f.named # NoTotalPages /\ f.page >= f.named) \/ f.short) => StoppedPaging(p)

(* C7 amended: the pull stops when the page number has reached the          *)
(* totalPages given or derived (by this answer or an earlier one), when    *)
(* the page is short and its answer carries no usable metadata, or when    *)
(* the page is empty or a bare array; a short page that is not empty and   *)
(* whose metadata names more pages does not end the pull.                  *)
C7_StopsAmended ==
  \A p \in PullIds :
    lastPage[p] # << >> =>
      LET f == lastPage[p][1]
      IN /\ (f.named # NoTotalPages /\ f.page >= f.named) => StoppedPaging(p)
         /\ (pull[p].totalPages # NoTotalPages /\ f.page >= pull[p].totalPages)
              => StoppedPaging(p)
         /\ (f.short /\ f.named = NoTotalPages) => StoppedPaging(p)
         /\ (f.list = << >> \/ f.array) => StoppedPaging(p)
         /\ (f.short /\ f.list # << >> /\ f.named > f.page /\ pullResult[p].status = "none")
              => pull[p].pc = "fetch" /\ pull[p].page = f.page + 1

(* a pull that went past a short first page whose metadata named two pages *)
(* and stopped on its second page                                          *)
C7_Witness ==
  \E p \in PullIds :
    /\ lastPage[p] # << >>
    /\ lastPage[p][1].page = 2
    /\ StoppedPaging(p)
    /\ Len(pull[p].all) = 1 + Len(lastPage[p][1].list)
    /\ pull[p].totalPages = 2

(* what the claim calls a valid remote record *)
ValidRecord(item) ==
  /\ item.id \notin {Undefined, ""} \/ item._id \notin {Undefined, ""}
  /\ item.name \notin {Undefined, ""}
  /\ IsFinite(ToNumber(IF item.sellingPrice # Undefined THEN item.sellingPrice ELSE item.price))

RecordId(item) == IF item.id # Undefined THEN item.id ELSE item._id

(* C8: of the page just fetched exactly the records with a non-empty id, a  *)
(* non-empty name and a finite price are kept, and dropping the others     *)
(* does not abort the pull: it goes on to store the kept ones.             *)
C8_KeepsExactlyValidRecords ==
  \A p \in PullIds :
    /\ lastPage[p] # << >> =>
         LET f == lastPage[p][1]
             valid == SelectSeq(f.list, ValidRecord)
             kept == SubSeq(pull[p].all, f.before + 1, Len(pull[p].all))
         IN /\ Len(kept) = Len(valid)
            /\ \A k \in 1..Len(kept) : kept[k].id = RecordId(valid[k])
    /\ pullResult[p].status # "store-error"

(* ---------------------------------------------------------------------- *)
(* Claims about the sales push                                             *)
(* ---------------------------------------------------------------------- *)

SaleRows(db, id) == { db.sales[k] : k \in { j \in 1..Len(db.sales) : db.sales[j].id = id } }

StoredSale(id) == SaleRows(salesDb, id)

SyncedOnlyAfterAccepted ==
  \A k \in 1..Len(salesDb.sales) : salesDb.sales[k].synced => salesDb.sales[k].id \in remote

(* the step in which a submission of push q ends in a failure *)
FailedSubmission(q) == push[q].pc = "submit" /\ push'[q].failed = push[q].failed + 1

FailedSubmissionKeepsSale ==
  \A q \in PushIds :
    FailedSubmission(q) =>
      LET id == push[q].queue[push[q].pos].id
      IN /\ salesDb' = salesDb /\ salesSnap' = salesSnap
         /\ SaleRows(salesDb', id) # {}
         /\ id \notin remote' => \A r \in SaleRows(salesDb', id) : ~r.synced

(* C9: in every state every sale flagged synced in the store has been       *)
(* accepted by the remote, and a submission that ends in a non-2xx status  *)
(* or a network failure changes nothing in the store: the sale is still    *)
(* there, and pending unless the remote has accepted it.                   *)
C9_SyncedOnlyAfterRemoteSuccess ==
  [](SyncedOnlyAfterAccepted) /\ [][FailedSubmissionKeepsSale]_vars

C9_Witness ==
  \E q \in PushIds :
    /\ push[q].failed = 1 /\ push[q].synced = 1
    /\ \E k \in 1..Len(attempted[q]) :
         /\ attempted[q][k].outcome \in {"status", "network"}
         /\ \E r \in StoredSale(attempted[q][k].id) : ~r.synced
    /\ \E k \in 1..Len(attempted[q]) :
         /\ attempted[q][k].outcome = "ok"
         /\ \E r \in StoredSale(attempted[q][k].id) : r.synced

AttemptedIds(q) == { attempted[q][k].id : k \in 1..Len(attempted[q]) }

Succeeded(q) == SelectSeq(attempted[q], LAMBDA a : a.outcome = "ok")

(* C10: a push that has ended has attempted every sale that was pending     *)
(* when it began, each exactly once, whatever failed on the way; each sale *)
(* whose submission succeeded is marked synced, also after an earlier      *)
(* failure; and synced + failed is the number pending when it began.       *)
C10_PushAttemptsEveryPendingSale ==
  \A q \in PushIds :
    /\ Cardinality(AttemptedIds(q)) = Len(attempted[q])
    /\ AttemptedIds(q) \subseteq pendingAtStart[q]
    /\ \A k \in 1..Len(attempted[q]) :
         (attempted[q][k].outcome = "ok" /\ ~(push[q].pc = "mark" /\ k = Len(attempted[q])))
           => \A r \in StoredSale(attempted[q][k].id) : r.synced
    /\ pushResult[q].status = "done" =>
         /\ AttemptedIds(q) = pendingAtStart[q]
         /\ pushResult[q].synced = Len(Succeeded(q))
         /\ pushResult[q].synced + pushResult[q].failed = Cardinality(pendingAtStart[q])

C10_Witness ==
  \E q \in PushIds :
    /\ pushResult[q].status = "done"
    /\ Len(attempted[q]) = 2
    /\ attempted[q][1].outcome = "network"
    /\ attempted[q][2].outcome = "ok"
    /\ \E r \in StoredSale(attempted[q][2].id) : r.synced
    /\ pushResult[q].synced = 1 /\ pushResult[q].failed = 1

(* the step in which push q sends queue[pos] to the remote *)
Submits(q) == push[q].pc = "submit" /\ Len(attempted'[q]) = Len(attempted[q]) + 1

(* the step in which push q marks queue[pos] synced *)
Marks(q) == push[q].pc = "mark" /\ push'[q].synced = push[q].synced + 1

(* C11: a sale that is synced in the store is neither submitted to the      *)
(* remote nor marked again by any push, also when pushes overlap.          *)
C11_SyncedSaleIsNeverResent ==
  [][\A q \in PushIds :
       (Submits(q) \/ Marks(q)) =>
          \A r \in SaleRows(salesDb, push[q].queue[push[q].pos].id) : ~r.synced]_vars

StoredIds == { salesDb.sales[k].id : k \in 1..Len(salesDb.sales) }

RowOf(id) == CHOOSE k \in 1..Len(salesDb.sales) : salesDb.sales[k].id = id

HasRead(q) == push[q].pc \in {"submit", "mark", "done"}

(* C12: a push that has read the store works on the sales pending at that   *)
(* moment, all of them, and attempts them oldest first (by creation time   *)
(* and by the order in which they were saved); a sale saved later is not   *)
(* attempted by this push and stays pending in the store.                  *)
C12_PushWorksOnItsSnapshot ==
  \A q \in {1} :
    HasRead(q) =>
      /\ { push[q].queue[k].id : k \in 1..Len(push[q].queue) } = pendingAtStart[q]
      /\ \A i, j \in 1..Len(attempted[q]) :
           i < j => /\ RowOf(attempted[q][i].id) < RowOf(attempted[q][j].id)
                    /\ salesDb.sales[RowOf(attempted[q][i].id)].createdAt
                         <= salesDb.sales[RowOf(attempted[q][j].id)].createdAt
      /\ \A id \in StoredIds \ storedAtStart[q] :
           /\ id \notin AttemptedIds(q)
           /\ \A r \in StoredSale(id) : ~r.synced

C12_Witness ==
  /\ push[1].pc = "done"
  /\ Len(attempted[1]) = 1
  /\ \E id \in StoredIds \ storedAtStart[1] :
       /\ \A r \in StoredSale(id) : ~r.synced /\ r.createdAt > 0
       /\ id \notin AttemptedIds(1)
  /\ \E id \in remote : id \in pendingAtStart[1]

PullFailed == pullResult[1].status \in {"rejected", "store-error"}

PushFailed == pushResult[1].status = "threw"

(* C13: a manual sync started online has, when it returns, run the forced   *)
(* pull to its end and run the push, whatever the pull did; a pull that    *)
(* succeeded stays in the catalog and in the timestamp whatever the push   *)
(* did; the call fails with the messages of the pull and of the push, in   *)
(* this order, when both failed, with the one message when one failed, and *)
(* does not fail when both succeeded.                                      *)
C13_ManualSyncRunsBoth ==
  cloudResult.status \in {"ok", "error"} =>
    /\ pullResult[1].status \in {"synced", "rejected", "store-error"}
    /\ pull[1].force
    /\ pushResult[1].status \in {"done", "threw"}
    /\ pullResult[1].status = "synced" =>
         /\ productsDb = CatalogOf(pull[1].all)
         /\ productsSnap = productsDb
         /\ lastSync = pullResult[1].lastSyncedAt
    /\ (PullFailed /\ PushFailed) =>
         /\ cloudResult.status = "error"
         /\ cloudResult.messages = <<PullMessage(pullResult[1].status), PushMessage>>
    /\ (PullFailed /\ ~PushFailed) =>
         cloudResult = [status |-> "error", messages |-> <<PullMessage(pullResult[1].status)>>]
    /\ (~PullFailed /\ PushFailed) =>
         cloudResult = [status |-> "error", messages |-> <<PushMessage>>]
    /\ (~PullFailed /\ ~PushFailed) => cloudResult = [status |-> "ok", messages |-> << >>]

(* a manual sync in which both the pull and the push failed *)
C13_Witness ==
  /\ cloudResult.status = "error"
  /\ Len(cloudResult.messages) = 2
  /\ PullFailed /\ PushFailed

Pending(id) == \E r \in StoredSale(id) : ~r.synced

Synced(id) == \E r \in StoredSale(id) : r.synced

(* C14: under these conditions every sale pending in the store is           *)
(* eventually synced, and no step removes a stored sale.                   *)
C14_EverySaleIsEventuallySynced ==
  /\ \A id \in SaleIds : Pending(id) ~> Synced(id)
  /\ [][StoredIds \subseteq StoredIds']_vars

(* a sale that is synced after a push had failed to submit it *)
C14_Witness ==
  \E id \in SaleIds :
    /\ Synced(id)
    /\ \E q \in PushIds :
         /\ pushResult[q].status = "done" /\ pushResult[q].failed > 0
         /\ \E k \in 1..Len(attempted[q]) :
              attempted[q][k].id = id /\ attempted[q][k].outcome \in {"status", "network"}

(* ---------------------------------------------------------------------- *)
(* Claims about the catalog queries                                        *)
(* ---------------------------------------------------------------------- *)

(* the products of pages 1..k of one search, one page after the other *)
RECURSIVE PagesUpTo(_, _, _, _)
PagesUpTo(db, k, pageSize, search) ==
  IF k = 0 THEN << >>
  ELSE PagesUpTo(db, k - 1, pageSize, search)
         \o searchProductsOffline(db, k, pageSize, search).products

(* q occurs in text, letters compared without regard to case *)
Contains(text, q) ==
  \E i \in 1..(Len(text) - Len(q) + 1) :
    LowerCase(SubSeq(text, i, i + Len(q) - 1)) = LowerCase(q)

FieldContains(value, q) == value # Undefined /\ Contains(Chars(value), q)

(* the catalog products the claim says the query q selects *)
LiteralMatches(q) ==
  { i \in DOMAIN productsDb :
      \/ FieldContains(productsDb[i].name, q)
      \/ FieldContains(productsDb[i].sku, q)
      \/ FieldContains(productsDb[i].id, q) }

C16_SearchMatchesLiterally ==
  lastSearch # << >> =>
    LET s == lastSearch[1]
        q == Trim(s.search)
        all == PagesUpTo(productsDb, s.result.totalPages, s.pageSize, s.search)
        ids == { all[k].id : k \in 1..Len(all) }
    IN /\ q # << >> => ids = LiteralMatches(q)
       /\ q = << >> =>
            /\ ids = DOMAIN productsDb
            /\ \A i, j \in 1..Len(all) :
                 i < j => ~TextLess(Chars(all[j].name), Chars(all[i].name))

(* what the claim asks of a product for the code *)
CodeFits(product, code) ==
  \/ product.sku # Undefined /\ LowerCase(Chars(product.sku)) = LowerCase(Trim(code))
  \/ Chars(product.id) = Trim(code)

(* C17: findProductByCodeOffline returns only a catalog product that fits   *)
(* the code, returns none exactly when no product fits or the code is      *)
(* blank, and at most one product of the catalog fits a code.              *)
C17_FindReturnsTheSingleMatch ==
  lastFind # << >> =>
    LET f == lastFind[1]
        fits == IF Trim(f.code) = << >> THEN {}
                ELSE { i \in DOMAIN productsDb : CodeFits(productsDb[i], f.code) }
    IN /\ f.found # << >> =>
            /\ f.found[1].id \in fits
            /\ f.found[1] = ProductOfRow(productsDb[f.found[1].id])
       /\ f.found = << >> <=> fits = {}
       /\ Cardinality(fits) <= 1

(* ---------------------------------------------------------------------- *)
(* Claims about the sale listings and the stored sales                     *)
(* ---------------------------------------------------------------------- *)

(* the sale of the k-th stored row is still unsynced *)
StillPending(id) == \E k \in 1..Len(salesDb.sales) : salesDb.sales[k].id = id /\ ~salesDb.sales[k].synced

(* the listed sale is the saved one, with its line items in their order *)
SameSale(listed, sale) == listed.id = sale.id /\ listed.items = sale.items

(* C18: getAllSales lists every stored sale, the one saved last first, and  *)
(* getPendingSales lists exactly the unsynced sales, the one saved first   *)
(* first, also when sales were saved within one second; each listed sale   *)
(* has the line items it was saved with, in their order.                   *)
C18_ListingsFollowSaveOrder ==
  LET all == getAllSales(salesDb)
      pend == getPendingSales(salesDb)
      unsynced == SelectSeq(saved, LAMBDA sale : StillPending(sale.id))
  IN /\ Len(all) = Len(saved)
     /\ \A k \in 1..Len(all) : SameSale(all[k], saved[Len(saved) + 1 - k])
     /\ Len(pend) = Len(unsynced)
     /\ \A k \in 1..Len(pend) : SameSale(pend[k], unsynced[k]) /\ ~pend[k].synced

(* the ids of the sales stored in db *)
IdsIn(db) == { db.sales[k].id : k \in 1..Len(db.sales) }

(* the stored sale id as the listings return it *)
SaleIn(db, id) ==
  buildSaleFromRow(db, db.sales[CHOOSE k \in 1..Len(db.sales) : db.sales[k].id = id])

(* a step keeps the sale id as it is, its synced flag going at most from false to true *)
KeepsSale(id) ==
  /\ SaleIn(salesDb', id).items = SaleIn(salesDb, id).items
  /\ SaleIn(salesDb, id).synced => SaleIn(salesDb', id).synced

(* C19: no store operation changes a line item of a sale that stays         *)
(* stored or takes its synced flag back from true to false,                *)
(* markSaleSynced(id) changes the synced flag of sale id and nothing else  *)
(* in the store, and getPendingSalesCount is always the number of stored   *)
(* sales whose synced flag is false.                                       *)
C19_StoredSaleIsImmutable ==
  /\ [][\A id \in IdsIn(salesDb) \cap IdsIn(salesDb') : KeepsSale(id)]_vars
  /\ [][\A id \in SaleIds :
          markSaleSynced(id) =>
            /\ salesDb'.items = salesDb.items
            /\ IdsIn(salesDb') = IdsIn(salesDb)
            /\ \A other \in IdsIn(salesDb) \ {id} : SaleIn(salesDb', other) = SaleIn(salesDb, other)]_vars
  /\ [](getPendingSalesCount(salesDb)
          = Cardinality({ id \in IdsIn(salesDb) : ~SaleIn(salesDb, id).synced }))

(* ---------------------------------------------------------------------- *)
(* Claims about the cart                                                   *)
(* ---------------------------------------------------------------------- *)

(* 0.25, 0.5, 0.75, 1, 2, 3, ... *)
OnLadder(quantity) == quantity \in {1, 2, 3} \/ (quantity >= 4 /\ quantity % 4 = 0)

(* the next quantity up, and the next one down (0: the line is removed) *)
LadderUp(quantity) == IF quantity < 4 THEN quantity + 1 ELSE quantity + 4

LadderDown(quantity) == IF quantity > 4 THEN quantity - 4 ELSE quantity - 1

(* the quantity of line id after a plus and then a minus on the cart as it is *)
UpThenDown(id) ==
  getCartQuantity(updateQuantity(updateQuantity(cart, productIndex, id, 1), productIndex, id, 0 - 1), id)

(* the increment from quantity is within the stock of the product, as far as it is known *)
WithinStock(product, quantity) == product = << >> \/ LadderUp(quantity) <= product[1]

(* C20, as stated: on a line whose quantity is on the ladder every          *)
(* increment moves one step up the ladder, every decrement moves one step  *)
(* down, and an increment followed by a decrement returns to the quantity. *)
C20_SteppingAsStated ==
  /\ lastStep # << >> /\ OnLadder(lastStep[1].before) =>
       /\ lastStep[1].delta > 0 =>
            getCartQuantity(cart, lastStep[1].id) = LadderUp(lastStep[1].before)
       /\ lastStep[1].delta < 0 =>
            getCartQuantity(cart, lastStep[1].id) = LadderDown(lastStep[1].before)
  /\ \A id \in CartIds :
       OnLadder(getCartQuantity(cart, id)) => UpThenDown(id) = getCartQuantity(cart, id)

(* C20, amended: an increment moves one step up the ladder when the         *)
(* product's stock is not known or covers the new quantity and leaves the  *)
(* line as it is otherwise; a decrement always moves one step down; an     *)
(* increment within the stock followed by a decrement returns to the       *)
(* quantity.                                                               *)
C20_SteppingWithinStock ==
  /\ lastStep # << >> /\ OnLadder(lastStep[1].before) =>
       /\ lastStep[1].delta > 0 /\ WithinStock(lastStep[1].product, lastStep[1].before) =>
            getCartQuantity(cart, lastStep[1].id) = LadderUp(lastStep[1].before)
       /\ lastStep[1].delta > 0 /\ ~WithinStock(lastStep[1].product, lastStep[1].before) =>
            getCartQuantity(cart, lastStep[1].id) = lastStep[1].before
       /\ lastStep[1].delta < 0 =>
            getCartQuantity(cart, lastStep[1].id) = LadderDown(lastStep[1].before)
  /\ \A id \in CartIds :
       OnLadder(getCartQuantity(cart, id)) /\ WithinStock(productIndex[id], getCartQuantity(cart, id)) =>
         UpThenDown(id) = getCartQuantity(cart, id)

(* a line at 0.5 of a product with stock 3 has just been incremented to 0.75 *)
C20_Witness ==
  /\ lastStep # << >>
  /\ lastStep[1].delta > 0
  /\ lastStep[1].before = Half
  /\ lastStep[1].product = <<Whole * MaxUnits>>
  /\ getCartQuantity(cart, lastStep[1].id) = ThreeQuarters

(* ---------------------------------------------------------------------- *)
(* Claims about checkout                                                   *)
(* ---------------------------------------------------------------------- *)

(* C21: every line of the cart has a quantity above zero, and so has every  *)
(* line item of every sale in the store: a line whose quantity would       *)
(* become zero is removed.                                                 *)
C21_QuantitiesArePositive ==
  /\ \A k \in 1..Len(cart) : cart[k].quantity > 0
  /\ \A it \in salesDb.items : it.quantity > 0
  /\ lastStep # << >> /\ lastStep[1].delta < 0 /\ lastStep[1].before = Quarter =>
       \A k \in 1..Len(cart) : cart[k].id # lastStep[1].id

(* a line at 0.25 has just been decremented and is gone, the other line stays *)
C21_Witness ==
  /\ lastStep # << >>
  /\ lastStep[1].delta < 0
  /\ lastStep[1].before = Quarter
  /\ Len(cart) = 1
  /\ cart[1].id # lastStep[1].id

(* the confirmation made last was given a number that covers the total *)
PaymentCovers ==
  lastConfirm[1].numeric /\ lastConfirm[1].change \in {"zero", "positive"}

(* a step that is a confirmation which created no sale *)
RejectedConfirmation ==
  /\ lastConfirm' # lastConfirm
  /\ lastConfirm' # << >>
  /\ ~lastConfirm'[1].created

(* the sale a successful confirmation has just handed on has the change it was given *)
ChangeIsRecorded ==
  lastConfirm # << >> /\ lastConfirm[1].created /\ checkout # << >> =>
    /\ checkout[1].totals.changeGiven >= 0
    /\ lastConfirm[1].change = "zero" <=> checkout[1].totals.changeGiven = 0

RECURSIVE LineSum(_, _)
LineSum(items, n) ==
  IF n = 0 THEN 0 ELSE LineSum(items, n - 1) + items[n].price * items[n].quantity

(* the sale of a row, as the listings return it, has consistent money fields *)
WellFormedSale(sale) ==
  /\ sale.items # << >>
  /\ sale.totals.subtotal = LineSum(sale.items, Len(sale.items))
  /\ sale.totals.totalAmount = sale.totals.subtotal - sale.totals.discount
  /\ sale.totals.changeGiven = sale.totals.amountPaid - sale.totals.totalAmount
  /\ sale.totals.changeGiven >= 0

(* C23: every sale that checkout has put into the store has at least one    *)
(* line item, subtotal = sum of price * quantity over its items,           *)
(* totalAmount = subtotal - discount, changeGiven = amountPaid -           *)
(* totalAmount >= 0, and is unsynced when it is first stored.              *)
C23_CheckedOutSaleIsWellFormed ==
  /\ [](\A k \in 1..Len(salesDb.sales) :
          WellFormedSale(buildSaleFromRow(salesDb, salesDb.sales[k])))
  /\ [][\A k \in 1..Len(salesDb'.sales) :
          salesDb'.sales[k].id \notin {salesDb.sales[j].id : j \in 1..Len(salesDb.sales)}
            => ~salesDb'.sales[k].synced]_vars

(* a sale of two lines with a discount and change has been stored *)
C23_Witness ==
  \E k \in 1..Len(salesDb.sales) :
    LET sale == buildSaleFromRow(salesDb, salesDb.sales[k])
    IN /\ Len(sale.items) = 2
       /\ sale.totals.discount > 0
       /\ sale.totals.changeGiven > 0
       /\ sale.totals.totalAmount > 0

(* ---------------------------------------------------------------------- *)
(* C24: buildEscPosReceipt emits its sections in one fixed order: the     *)
(* printer reset first, the header, a divider, the optional lines, a       *)
(* divider, the column header, a divider, the item rows, a divider, the    *)
(* totals, the thank-you lines, the paper feed, the full cut last.  The    *)
(* receipt-number, date-time and payment-method lines each appear exactly  *)
(* when the sale has that field, the discount row exactly when the         *)
(* discount is above zero, and there is one row per line item, in the      *)
(* order of the items.                                                     *)
(* ---------------------------------------------------------------------- *)
SectionsOf(data) == [k \in 1..Len(data) |-> data[k].section]

(* a sequence without the repetitions of an element right after itself *)
RECURSIVE Collapse(_)
Collapse(seq) ==
  IF Len(seq) < 2 THEN seq
  ELSE IF seq[1] = seq[2] THEN Collapse(Tail(seq))
  ELSE <<seq[1]>> \o Collapse(Tail(seq))

Occurs(section, data) == \E k \in 1..Len(data) : data[k].section = section

Optional(present, section) == IF present THEN <<section>> ELSE << >>

SectionOrder(sale) ==
  <<"reset", "header", "divider">>
    \o Optional(sale.receiptNumber # << >>, "receiptNumber")
    \o Optional(sale.date # << >> \/ sale.time # << >>, "dateTime")
    \o Optional(sale.paymentMethod # << >>, "paymentMethod")
    \o <<"divider", "columns", "divider">>
    \o Optional(sale.items # << >>, "item")
    \o <<"divider", "subtotal">>
    \o Optional(sale.discount # NaN /\ sale.discount > 0, "discount")
    \o <<"total", "blank", "thanks", "feed", "cut">>

ItemRowsOf(data) == SelectSeq(data, LAMBDA buffer : buffer.section = "item")

C24_ReceiptSectionsInOrder ==
  lastReceipt # << >> =>
    LET sale == lastReceipt[1].sale
        data == lastReceipt[1].data
    IN /\ Collapse(SectionsOf(data)) = Collapse(SectionOrder(sale))
       /\ data[1].bytes = <<27, 64>>
       /\ data[Len(data)].bytes = <<29, 86, 0>>
       /\ Len(ItemRowsOf(data)) = Len(sale.items)
       /\ \A k \in 1..Len(sale.items) :
            SubSeq(ItemRowsOf(data)[k].text, 1, Min(Len(sale.items[k].name), 24))
              = SubSeq(sale.items[k].name, 1, Min(Len(sale.items[k].name), 24))
       /\ \A section \in {"receiptNumber", "dateTime", "paymentMethod", "discount"} :
            Cardinality({ k \in 1..Len(data) : data[k].section = section }) <= 1

C24_Witness ==
  /\ lastReceipt # << >>
  /\ lastReceipt[1].sale.receiptNumber # << >>
  /\ lastReceipt[1].sale.date = << >>
  /\ lastReceipt[1].sale.time # << >>
  /\ lastReceipt[1].sale.paymentMethod # << >>
  /\ lastReceipt[1].sale.discount > 0
  /\ Len(lastReceipt[1].sale.items) = 2
  /\ lastReceipt[1].sale.items[1] # lastReceipt[1].sale.items[2]
  /\ Occurs("dateTime", lastReceipt[1].data)
  /\ Occurs("discount", lastReceipt[1].data)

(* ---------------------------------------------------------------------- *)
(* C25: every item row of the receipt is exactly 48 characters before its *)
(* newline: 24 for the name, 4 for the quantity, 10 for the price, 10 for  *)
(* the line total.  A text longer than its field is cut to the width of    *)
(* the field, a shorter one is filled with spaces, after a name and before *)
(* a number.  For the item Milk at 5.00 times 2 the total cell is          *)
(* 'GHS 10.00' after one space.  The subtotal, discount and total rows are *)
(* exactly 24 + 24 characters.                                             *)
(* ---------------------------------------------------------------------- *)
AllSpaces(text) == \A k \in 1..Len(text) : text[k] = " "

(* cell is text in a field of the width: cut on the right when too long,   *)
(* else with the spaces after it                                           *)
FilledAfter(cell, text, width) ==
  /\ Len(cell) = width
  /\ Len(text) >= width => \A k \in 1..width : cell[k] = text[k]
  /\ Len(text) < width =>
       /\ SubSeq(cell, 1, Len(text)) = text
       /\ AllSpaces(SubSeq(cell, Len(text) + 1, width))

(* the same with the spaces before it *)
FilledBefore(cell, text, width) ==
  /\ Len(cell) = width
  /\ Len(text) >= width => \A k \in 1..width : cell[k] = text[k]
  /\ Len(text) < width =>
       /\ SubSeq(cell, width - Len(text) + 1, width) = text
       /\ AllSpaces(SubSeq(cell, 1, width - Len(text)))

(* a line of 48 characters and its newline *)
IsFullLine(text) ==
  /\ Len(text) = 49
  /\ text[49] = "\n"
  /\ \A k \in 1..48 : text[k] # "\n"

TotalsRowsOf(data) ==
  SelectSeq(data, LAMBDA buffer : buffer.section \in {"subtotal", "discount", "total"})

C25_ReceiptRowsAreAligned ==
  lastReceipt # << >> =>
    LET sale == lastReceipt[1].sale
        rows == ItemRowsOf(lastReceipt[1].data)
        totals == TotalsRowsOf(lastReceipt[1].data)
    IN /\ \A k \in 1..Len(rows) :
            LET item == sale.items[k]
                text == rows[k].text
            IN /\ IsFullLine(text)
               /\ FilledAfter(SubSeq(text, 1, 24), item.name, 24)
               /\ FilledBefore(SubSeq(text, 25, 28), NumberToString(OrZero(item.quantity)), 4)
               /\ FilledBefore(SubSeq(text, 29, 38), formatMoney(item.price), 10)
               /\ FilledBefore(SubSeq(text, 39, 48),
                               formatMoney((OrZero(item.price) * OrZero(item.quantity)) \div Whole),
                               10)
               /\ (item.name = Milk /\ item.price = 5 * Whole /\ item.quantity = 2 * Whole) =>
                    SubSeq(text, 39, 48) = <<" ", "G", "H", "S", " ", "1", "0", ".", "0", "0">>
       /\ \A k \in 1..Len(totals) :
            /\ IsFullLine(totals[k].text)
            /\ AllSpaces(SubSeq(totals[k].text, 10, 24))
            /\ \E n \in 25..45 :
                 /\ AllSpaces(SubSeq(totals[k].text, 25, n - 1))
                 /\ SubSeq(totals[k].text, n, n + 3) = GHS

C25_Witness ==
  /\ lastReceipt # << >>
  /\ Len(lastReceipt[1].sale.items) = 2
  /\ lastReceipt[1].sale.items[1].name = Milk
  /\ Len(lastReceipt[1].sale.items[2].name) > 24
  /\ Len(formatMoney(lastReceipt[1].sale.items[2].price)) > 10
  /\ Len(TotalsRowsOf(lastReceipt[1].data)) = 3

(* ---------------------------------------------------------------------- *)
(* C26: buildEscPosBarcodeLabels prints exactly qty barcodes in rows of   *)
(* at most three, every row full except possibly the last (seven labels    *)
(* give rows of 3, 3, 1).  The columns begin at dots 0, 192, 384 on 80 mm  *)
(* paper and at 0, 128, 256 on 58 mm paper; in each row the c-th barcode   *)
(* and the c-th readable value are placed at the c-th column, and the      *)
(* digits under a barcode are the value the barcode encodes.  With a fixed *)
(* barcode value two calls give the same bytes.                            *)
(* ---------------------------------------------------------------------- *)
ColumnEdges(paper) == IF paper = 80 THEN <<0, 192, 384>> ELSE <<0, 128, 256>>

(* the sizes of the rows for n labels *)
RECURSIVE RowSizes(_)
RowSizes(n) == IF n = 0 THEN << >> ELSE IF n <= 3 THEN <<n>> ELSE <<3>> \o RowSizes(n - 3)

(* what a buffer is seen to be: its section, and the dots of a position *)
Seen(buffer) ==
  IF buffer.section = "position"
  THEN <<"position", buffer.bytes[3] + 256 * buffer.bytes[4]>>
  ELSE <<buffer.section, 0>>

(* a row of n labels as it has to be seen *)
SeenRow(n, paper, what) ==
  [k \in 1..(2 * n) |-> IF k % 2 = 1 THEN <<"position", ColumnEdges(paper)[(k + 1) \div 2]>>
                         ELSE <<what, 0>>]

RECURSIVE SeenRows(_, _)
SeenRows(sizes, paper) ==
  IF sizes = << >> THEN << >>
  ELSE SeenRow(Head(sizes), paper, "barcode") \o <<<<"lf", 0>>, <<"size", 0>>>>
         \o SeenRow(Head(sizes), paper, "digits") \o <<<<"lf", 0>>, <<"feed", 0>>>>
         \o SeenRows(Tail(sizes), paper)

BarcodesOf(data) == SelectSeq(data, LAMBDA buffer : buffer.section = "barcode")

DigitsOf(data) == SelectSeq(data, LAMBDA buffer : buffer.section = "digits")

C26_LabelsInRowsOfThree ==
  lastLabels # << >> =>
    LET job == lastLabels[1].job
        data == lastLabels[1].data
        body == SubSeq(data, 10, Len(data) - 2)
    IN /\ Len(BarcodesOf(data)) = job.qty
       /\ [k \in 1..Len(body) |-> Seen(body[k])] = SeenRows(RowSizes(job.qty), job.paper)
       /\ \A k \in 1..9 : data[k].section \notin {"barcode", "digits", "position", "lf"}
       /\ \A k \in 1..job.qty :
            /\ BarcodesOf(data)[k].text = <<"{", "B">> \o DigitsOf(data)[k].text
            /\ BarcodesOf(data)[k].bytes[4] = Len(BarcodesOf(data)[k].text)
       /\ (job.barcodeValue # << >> /\ lastLabels[1].calls = 2) => lastLabels[1].same

C26_Witness ==
  /\ lastLabels # << >>
  /\ lastLabels[1].job.qty = 7
  /\ lastLabels[1].job.paper = 80
  /\ lastLabels[1].job.barcodeValue # << >>
  /\ lastLabels[1].calls = 2
  /\ lastLabels[1].same

(* ---------------------------------------------------------------------- *)
(* C27: the print-receipt handler never fails its caller: for every sale  *)
(* payload and every printer outcome (device not found, an error reported  *)
(* through the error callback, an exception thrown by the printer library, *)
(* an exception while encoding the receipt) its promise eventually         *)
(* resolves to true or to false, and never rejects or stays unresolved.    *)
(* ---------------------------------------------------------------------- *)
PrintSettled == printJob # << >> /\ printJob[1].promise \in {"true", "false"}

PrintRejected == printJob # << >> /\ printJob[1].promise = "rejected"

C27_PrintAlwaysResolves ==
  /\ [](~PrintRejected)
  /\ (printJob # << >>) ~> PrintSettled

(* ---------------------------------------------------------------------- *)
(* C28: handleReprintInvoice(sale) leaves the current screen and the      *)
(* current sale as they are if and only if the print call returns true;    *)
(* in every other case (the call returns false, the call throws, there is  *)
(* no print API) it ends with currentSale = sale and the receipt screen    *)
(* shown.  It never passes an error on to its caller.  (When the receipt   *)
(* screen already shows this sale, a fallback changes nothing either: the  *)
(* only-if is stated for the other cases.)                                 *)
(* ---------------------------------------------------------------------- *)
ReprintLeftAsIs(call) ==
  call.screenAfter = call.screenBefore /\ call.saleAfter = call.saleBefore

ReprintShowsReceipt(call) ==
  call.screenAfter = "receipt" /\ call.saleAfter = <<call.sale>>

C28_ReprintFallsBackToScreen ==
  lastReprint # << >> =>
    LET call == lastReprint[1]
    IN /\ call.ended = "returned"
       /\ call.result = "true" => ReprintLeftAsIs(call)
       /\ call.result # "true" => ReprintShowsReceipt(call)
       /\ (ReprintLeftAsIs(call)
             /\ ~(call.screenBefore = "receipt" /\ call.saleBefore = <<call.sale>>))
            => call.result = "true"

C28_Witness ==
  /\ lastReprint # << >>
  /\ lastReprint[1].result = "rejected"
  /\ lastReprint[1].screenBefore = "settings"
  /\ lastReprint[1].saleBefore # << >>
  /\ lastReprint[1].saleBefore # <<lastReprint[1].sale>>
  /\ currentScreen = "receipt"
  /\ currentSale = <<lastReprint[1].sale>>

(* ---------------------------------------------------------------------- *)
(* C29: store initialization is idempotent: any number of getDatabase     *)
(* calls, overlapping ones included, get one and the same database, and    *)
(* the persisted snapshot is loaded at most once; ensureTables run on a    *)
(* database it has already migrated changes neither the schema nor a row,  *)
(* so that an initialization after an initialization leaves the store as   *)
(* the first did.                                                          *)
(* ---------------------------------------------------------------------- *)
C29_InitializationIsIdempotent ==
  /\ [](opened.databases <= 1 /\ opened.loads <= 1)
  /\ [](lastOpen # << >> /\ lastOpen[1].result = "fulfilled" => lastOpen[1].database = dbInstance)
  /\ [][lastOpen # << >> /\ lastOpen' # << >>
          /\ lastOpen[1].result = "fulfilled" /\ lastOpen'[1].result = "fulfilled"
          => lastOpen'[1].database = lastOpen[1].database]_vars
  /\ [](dbInstance # << >> => ensureTables(dbInstance[1]) = dbInstance[1] /\ dbInstance = firstDb)
  /\ [](dbInstance # << >> =>
          /\ dbInstance[1].quantityType = "REAL"
          /\ HasColumn(dbInstance[1].sales, "amountPaid") /\ HasColumn(dbInstance[1].sales, "changeGiven")
          /\ stored # << >> /\ dbInstance[1].saleRows = stored[1].saleRows
          /\ dbInstance[1].itemRows = stored[1].itemRows)

C29_Witness ==
  /\ lastOpen # << >>
  /\ lastOpen[1].result = "fulfilled"
  /\ calls # << >>
  /\ opened.loads = 1
  /\ stored[1].quantityType = "INTEGER"
  /\ ~HasColumn(stored[1].sales, "changeGiven")
  /\ stored[1].saleRows # << >>

(* ---------------------------------------------------------------------- *)
(* C30: every store error is recoverable by retrying: after a failed      *)
(* store operation, a failure while opening or initializing the database   *)
(* included, a later call is able to succeed once the cause of the failure *)
(* is gone; no failure leaves the store in a state in which all later      *)
(* operations fail.  Here: a call made when the wasm file can be loaded    *)
(* gets the database.                                                      *)
(* ---------------------------------------------------------------------- *)
C30_RetryAfterCauseGoneSucceeds ==
  lastOpen # << >> /\ lastOpen[1].healthy => lastOpen[1].result = "fulfilled"

(* ---------------------------------------------------------------------- *)
(* C31: the two stores are independent and write-through. No operation on  *)
(* sales changes the persisted products snapshot or the last-sync          *)
(* timestamp, no operation on products (a pull included) changes the       *)
(* persisted sales snapshot, and between operations the persisted snapshot *)
(* of each family is the export of that family's in-memory database.       *)
(* ---------------------------------------------------------------------- *)
C31_StoresIndependentAndWriteThrough ==
  /\ [](/\ salesSnap = persistDatabase(salesDb)
        /\ productsSnap = persistDatabase(productsDb))
  /\ [][SalesOperation => UNCHANGED <<productsSnap, lastSync>>]_vars
  /\ [][ProductsOperation => UNCHANGED salesSnap]_vars

(* the parts of C31 that hold: the frames, and write-through of products   *)
C31_FramesAndProductsWriteThrough ==
  /\ [](productsSnap = persistDatabase(productsDb))
  /\ [][SalesOperation => UNCHANGED <<productsSnap, lastSync>>]_vars
  /\ [][ProductsOperation => UNCHANGED salesSnap]_vars

(* both stores hold rows and a pull has stamped its time *)
C31_Witness ==
  /\ salesDb.sales # << >>
  /\ productsDb # EmptyProductsDb
  /\ lastSync # NoTimestamp

(* ---------------------------------------------------------------------- *)
(* C32: addToCart on a product that is already in the cart steps its       *)
(* quantity exactly as updateQuantity with a positive delta does: from     *)
(* every quantity a cart line can have, both give the same next quantity.  *)
(* ---------------------------------------------------------------------- *)
(* the quantity of the product's line after addToCart(product) *)
AddedQuantity(product) == getCartQuantity(addToCart(cart, product), product.id)

(* the same after updateQuantity(product.id, 1) with the product indexed *)
IncrementedQuantity(product) ==
  getCartQuantity(
    updateQuantity(cart, [productIndex EXCEPT ![product.id] = <<product.stockQuantity>>],
                   product.id, 1),
    product.id)

C32_AddStepsAsIncrement ==
  \A product \in ShelfProducts :
    getCartQuantity(cart, product.id) > 0 => AddedQuantity(product) = IncrementedQuantity(product)

(* the two agree on every line that holds a quarter or whole units *)
C32_AgreeOffHalves ==
  \A product \in ShelfProducts :
    /\ getCartQuantity(cart, product.id) > 0
    /\ getCartQuantity(cart, product.id) \notin {Half, ThreeQuarters}
    => AddedQuantity(product) = IncrementedQuantity(product)

(* a line at 0.5 of a product whose stock covers a whole unit *)
C32_Witness ==
  \E product \in ShelfProducts :
    /\ getCartQuantity(cart, product.id) = Half
    /\ product.stockQuantity >= Whole
    /\ AddedQuantity(product) = Whole
    /\ IncrementedQuantity(product) = ThreeQuarters

(* ---------------------------------------------------------------------- *)
(* C33: handleCompleteSale clears the cart, shows the receipt and triggers *)
(* a push only after saveSaleOffline has succeeded; when saveSaleOffline   *)
(* fails the cart keeps its lines, no push is triggered and the sale is    *)
(* not shown as completed; and the push that a completed sale triggers     *)
(* finds that sale in the store.                                           *)
(* ---------------------------------------------------------------------- *)
(* the completion of the sale in checkout settles in this step *)
CompletionSettles == checkout # << >> /\ checkout' = << >>

(* the sale in checkout is in the persisted store after the step *)
SaleWasSaved == \E k \in 1..Len(salesSnap'.sales) : salesSnap'.sales[k].id = checkout[1].id

C33_CompletionFollowsTheSave ==
  /\ [][CompletionSettles /\ ~SaleWasSaved =>
          /\ cart' = cart /\ cart' # << >>
          /\ triggered' = triggered
          /\ UNCHANGED <<currentSale, currentScreen>>]_vars
  /\ [][CompletionSettles /\ (cart' = << >> \/ currentScreen' = "receipt" \/ triggered' # triggered) =>
          /\ SaleWasSaved
          /\ currentSale' = <<[checkout[1] EXCEPT !.synced = FALSE]>>]_vars
  /\ [][Len(triggered') > Len(triggered) =>
          /\ CompletionSettles /\ SaleWasSaved
          /\ triggered'[Len(triggered')] = checkout[1].id]_vars
  /\ [][Len(triggered') < Len(triggered) => Head(triggered) \in StoredIds]_vars

(* a save was rejected and left the cart; later the sale was completed and *)
(* its push has read the store                                             *)
C33_Witness ==
  /\ lastConfirm # << >>
  /\ currentScreen = "receipt"
  /\ cart = << >>
  /\ triggered = << >>
  /\ \E q \in PushIds : push[q].pc = "submit" /\ currentSale[1].id \in pendingAtStart[q]

(* ---------------------------------------------------------------------- *)
(* C34: at most one catalog replace results from non-forced pulls within   *)
(* any debounce window, under every interleaving: when two non-forced      *)
(* pulls overlap the second does not also fetch and replace, and a replace *)
(* never writes data fetched earlier than the data of a replace that has   *)
(* already been applied.                                                   *)
(* ---------------------------------------------------------------------- *)
(* the call is past its debounce test and has not returned *)
InFlight(p) == pull[p].pc \in {"fetch", "replace", "stamp"}

(* the replace of call p is applied in this step *)
ReplaceApplied(p) == replaces'[p] = replaces[p] + 1 /\ lastWriter' = p /\ pull'[p].pc = "stamp"

C34_OneReplacePerWindow ==
  /\ [](\A p, q \in OverlapIds :
          p # q /\ ~pull[p].force /\ ~pull[q].force => ~(InFlight(p) /\ InFlight(q)))
  /\ [][\A p \in OverlapIds :
          ReplaceApplied(p) /\ ~pull[p].force /\ pullTrace.quietAt # NoTimestamp =>
            now - pullTrace.quietAt >= DebounceMs]_vars
  /\ [][\A p \in OverlapIds :
          ReplaceApplied(p) => ~pullTrace.behind[p]]_vars

(* two non-forced pulls are in flight together *)
C34_Witness ==
  /\ InFlight(1) /\ InFlight(2)
  /\ ~pull[1].force /\ ~pull[2].force

(* ---------------------------------------------------------------------- *)
(* C35: isSyncingCloud is true in every state in which a sales push or a   *)
(* manual sync is in flight and false only when none is, also when a push  *)
(* and a manual sync overlap and one of them finishes first.               *)
(* ---------------------------------------------------------------------- *)
(* syncCloud is between raising the flag and its finally *)
ManualSyncInFlight == cloud.pc # "idle"

(* a syncSales call is between raising the flag and its finally *)
SalesPushInFlight == \E q \in PushIds \ {1} : push[q].pc # "idle"

C35_FlagTracksSyncsInFlight ==
  isSyncingCloud <=> (ManualSyncInFlight \/ SalesPushInFlight)

(* the flag is never raised while nothing is in flight *)
C35_FlagOnlyWhileInFlight ==
  isSyncingCloud => (ManualSyncInFlight \/ SalesPushInFlight)

(* a manual sync is still in flight after an overlapping push has finished *)
C35_Witness ==
  /\ ManualSyncInFlight
  /\ ~SalesPushInFlight
  /\ pushResult[2].status = "done"
  /\ ~isSyncingCloud

(* ---------------------------------------------------------------------- *)
(* C36: one checkout confirmation stores at most one sale.  While a sale   *)
(* completion is in progress a second confirm or complete-sale action,     *)
(* even one dispatched before the component has re-rendered with           *)
(* isCompletingSale = true, creates no second sale for the same cart: at   *)
(* most one sale is being completed at a time, and every sale that enters  *)
(* the store takes a cart with it.                                         *)
(* ---------------------------------------------------------------------- *)
(* a sale enters the store in this step *)
SaleEntersStore == Len(salesDb'.sales) > Len(salesDb.sales)

C36_OneSalePerConfirmation ==
  /\ [](Len(checkout) <= 1)
  /\ [][SaleEntersStore => cart # << >> /\ cart' = << >>]_vars

(* two sales with the same lines are in the store, the cart was filled once *)
C36_Witness ==
  /\ Len(salesDb.sales) = 2
  /\ getSaleItems(salesDb, salesDb.sales[1].id) # << >>
  /\ checkout = << >>

(* ---------------------------------------------------------------------- *)
(* C37: the totalFetched a successful pull reports, in its return value    *)
(* and in the products-updated notification, equals the number of products *)
(* in the local catalog after the pull, for every sequence of server       *)
(* pages, also when a page repeats a product id seen before in the pull.   *)
(* ---------------------------------------------------------------------- *)
(* getProductsCountOffline: SELECT COUNT of the products table *)
CatalogCount == Cardinality(DOMAIN productsDb)

C37_TotalFetchedIsCatalogCount ==
  \A p \in PullIds :
    pullResult[p].status = "synced" =>
      /\ pullResult[p].totalFetched = CatalogCount
      /\ events[Len(events)].totalFetched = CatalogCount

(* the ids of the records a pull has accumulated *)
FetchedIds(p) == { pull[p].all[k].id : k \in 1..Len(pull[p].all) }

(* C37 for pulls whose pages repeat no id: the count reported is the count stored *)
C37_HoldsWithoutRepeats ==
  \A p \in PullIds :
    pullResult[p].status = "synced" /\ Cardinality(FetchedIds(p)) = Len(pull[p].all) =>
      /\ pullResult[p].totalFetched = CatalogCount
      /\ events[Len(events)].totalFetched = CatalogCount

(* a pull of two pages that both hold product p2 has completed *)
C37_Witness ==
  \E p \in PullIds :
    /\ pullResult[p].status = "synced"
    /\ pull[p].page = 2
    /\ pullResult[p].totalFetched > CatalogCount

(* ---------------------------------------------------------------------- *)
(* C38: with an unchanged catalog, after any sequence of addToCart,        *)
(* updateQuantity and removeFromCart every cart line's quantity is at most *)
(* the stockQuantity of its product: an add or increment that would exceed *)
(* the stock leaves the cart unchanged, and a product with stockQuantity   *)
(* <= 0 never enters the cart.                                             *)
(* ---------------------------------------------------------------------- *)
(* the stockQuantity of product id in the catalog *)
StockOf(id) == (CHOOSE product \in TillProducts : product.id = id).stockQuantity

C38_CartWithinStock ==
  \A k \in 1..Len(cart) :
    /\ StockOf(cart[k].id) > 0
    /\ cart[k].quantity <= StockOf(cart[k].id)

(* a line incremented past its stock after the screen was mounted again *)
C38_Witness ==
  /\ lastStep # << >>
  /\ lastStep[1].delta > 0
  /\ lastStep[1].product = << >>
  /\ getCartQuantity(cart, lastStep[1].id) > StockOf(lastStep[1].id)

(* ---------------------------------------------------------------------- *)
(* C39: the product pull terminates.  The page number grows by exactly one *)
(* per fetch and no page is fetched twice within one pull; an answer with  *)
(* a failure status, a bare array or an empty record list ends the         *)
(* fetching at once; and against a server whose answers keep containing    *)
(* such an answer every pull ends, with one catalog replace or with an     *)
(* abort that replaced nothing.                                            *)
(* ---------------------------------------------------------------------- *)
(* call p fetches a page in this step and the answer is ok *)
PageFetched(p) == pull[p].pc = "fetch" /\ lastPage'[p] # lastPage[p]

(* call p has settled *)
PullEnded(p) ==
  /\ pull[p].pc = "idle"
  /\ \/ pullResult[p].status = "synced" /\ replaces[p] = 1
     \/ pullResult[p].status = "store-error" /\ replaces[p] = 1
     \/ pullResult[p].status = "rejected" /\ replaces[p] = 0

C39_PullTerminates ==
  /\ [][\A p \in PullIds :
          PageFetched(p) =>
            /\ lastPage'[p][1].page = IF lastPage[p] = << >> THEN 1 ELSE lastPage[p][1].page + 1
            /\ lastPage'[p][1].page = pull[p].page
            /\ pull'[p].pc = "fetch" => pull'[p].page = pull[p].page + 1
            /\ lastPage'[p][1].array \/ lastPage'[p][1].list = << >> => pull'[p].pc = "replace"]_vars
  /\ [][\A p \in PullIds :
          pull[p].pc = "fetch" /\ pull'[p].pc = "idle" =>
            pullResult'[p].status = "rejected" /\ replaces'[p] = 0]_vars
  /\ \A p \in PullIds : (pull[p].pc = "fetch") ~> PullEnded(p)

(* a pull has ended after two pages, the second with an empty list *)
C39_Witness ==
  \E p \in PullIds :
    /\ PullEnded(p)
    /\ pullResult[p].status = "synced"
    /\ lastPage[p] # << >>
    /\ lastPage[p][1].page = 2
    /\ lastPage[p][1].list = << >>

(* ---------------------------------------------------------------------- *)
(* C40: no orphan line items.  After any sequence of saveSaleOffline,      *)
(* markSaleSynced and deleteSale every stored line item belongs to a       *)
(* stored sale; deleteSale(id) removes the sale and all its line items and *)
(* nothing else; and saving again under an existing id leaves exactly the  *)
(* line items of the latest save.                                          *)
(* ---------------------------------------------------------------------- *)
(* every row of sale_items names a row of sales *)
NoOrphanItems ==
  \A it \in salesDb.items : \E k \in 1..Len(salesDb.sales) : salesDb.sales[k].id = it.saleId

(* a step that is deleteSale(id) leaves no row of id and every other row *)
DeleteRemovesOneSale ==
  \A id \in SaleIds :
    deleteSale(id) =>
      /\ \A k \in 1..Len(salesDb'.sales) : salesDb'.sales[k].id # id
      /\ \A it \in salesDb'.items : it.saleId # id
      /\ salesDb'.sales = SelectSeq(salesDb.sales, LAMBDA r : r.id # id)
      /\ salesDb'.items = {it \in salesDb.items : it.saleId # id}

C40_NoOrphanLineItems ==
  /\ [](NoOrphanItems)
  /\ [](lastSave # << >> =>
          getSaleItems(salesDb, lastSave[1].sale.id) = lastSave[1].sale.items)
  /\ [][DeleteRemovesOneSale]_vars

(* C40 with its last part said of the saves that ran to their end *)
C40_HoldsForCompletedSaves ==
  /\ [](NoOrphanItems)
  /\ [](lastSave # << >> /\ ~lastSave[1].threw =>
          getSaleItems(salesDb, lastSave[1].sale.id) = lastSave[1].sale.items)
  /\ [][DeleteRemovesOneSale]_vars

(* a sale stored with two line items has been saved again with one, which   *)
(* did not bind                                                            *)
C40_Witness ==
  /\ lastSave # << >>
  /\ lastSave[1].threw
  /\ Len(lastSave[1].sale.items) = 2
  /\ Cardinality({it \in lastSave[1].pre.items : it.saleId = lastSave[1].sale.id}) = 2
  /\ getSaleItems(salesDb, lastSave[1].sale.id) # lastSave[1].sale.items

====
